---------------------------- MODULE Spec2Model ----------------------------
(***************************************************************************)
(* Block/blob availability and reconstruction pipeline of the beacon node: *)
(*   - beacon_block_streamer.rs : request batches, payload reconstruction  *)
(*     and the ordered block stream;                                       *)
(*   - single_block_lookup.rs   : the per-root lookup state machine;       *)
(*   - blob_verification.rs     : gossip admission of blob sidecars.       *)
(* Each subsystem has its own specification over the shared variables; a   *)
(* specification leaves the other subsystems' variables untouched.         *)
(***************************************************************************)
EXTENDS Integers, Sequences, FiniteSets, TLC

VARIABLES
    \* ---- beacon_block_streamer.rs ----
    block_roots,     \* the request list handed to stream()
    check_cache,     \* BeaconBlockStreamer.check_early_attester_cache == Yes
    spc,             \* position of the spawned "get_blocks_sender" task
    roots,           \* ordered_block_roots returned by get_requests
    request_map,     \* root -> EngineRequest handle, returned by get_requests
    heap,            \* the Arc<RwLock<Bodies..>> cells, by address (index)
    no_request,      \* the NoRequest result map
    idx,             \* loop index of the for loop over the roots
    cur,             \* the get_block_result call in flight of the stream task
    sent,            \* items sent on the unbounded channel, in order
    rx_open,         \* the consumer still holds the receiving end
    lock,            \* per cell: holder of the RwLock write guard
    engine_calls,    \* per cell: payload-bodies calls the engine received
    fetches,         \* storage loads / get_block calls performed
    aux,             \* other holders of cloned EngineRequest handles
    returned,        \* (cell, root, result) triples get_block_result returned
    with_bodies,     \* per cell: the with_bodies map execute() built
    \* ---- packing (push_block_parts sequences) ----
    pack,            \* get_requests' locals while batches are being packed
    pack_last,       \* last item pushed and what push_block_parts returned
    \* ---- single_block_lookup.rs ----
    block_request_state,        \* SingleBlockLookup.block_request_state
    blob_request_state,         \* SingleBlockLookup.blob_request_state
    requested_ids,              \* SingleBlockLookup.requested_ids
    blob_download_queue,        \* SingleBlockLookup.blob_download_queue
    unknown_parent_components,  \* SingleBlockLookup.unknown_parent_components
    da_checker,                 \* what the availability checker holds for the root
    lookup_ret,                 \* the last operation on the lookup and what it returned
    \* ---- blob_verification.rs ----
    observed_blob_sidecars,     \* chain.observed_blob_sidecars
    fork_choice,                \* block roots known to fork choice
    gossip,                     \* per validation in flight: its position and sidecar
    gossip_ret,                 \* per validation: what it returned
    admitted                    \* GossipVerifiedBlob values constructed, in order

svars == <<block_roots, check_cache, spc, roots, request_map, heap, no_request,
           idx, cur, sent, rx_open, lock, engine_calls, fetches, aux, returned,
           with_bodies>>
pvars == <<pack, pack_last>>
lvars == <<block_request_state, blob_request_state, requested_ids, blob_download_queue,
           unknown_parent_components, da_checker, lookup_ret>>
gvars == <<observed_blob_sidecars, fork_choice, gossip, gossip_ret, admitted>>
vars == <<svars, pvars, lvars, gvars>>
\* what the actions of one subsystem leave alone
not_s == <<pvars, lvars, gvars>>
not_p == <<svars, lvars, gvars>>
not_l == <<svars, pvars, gvars>>
not_g == <<svars, pvars, lvars>>

---------------------------------------------------------------------------
(* Bounds of the model *)
MaxRoots == 3          \* longest request list
MaxShort == 1          \* how many bodies an engine response may fall short
MaxAuxCalls == 1       \* get_block_result calls made by tasks other than the stream's
MaxDups == 1           \* duplicate roots pushed while packing by hash
MaxPackPushes == 34    \* block parts pushed while packing by hash
MaxRangePushes == 3    \* block parts pushed while packing by range
MaxSharedRoots == 2    \* roots of a stream whose handles other tasks share

(* Program constants *)
BatchCapacity == 32    \* hashes.len() == 32 / self.count == 32
WindowSpan == 31       \* self.start + 31 < block_number

None == <<>>
Some(x) == <<x>>
IsSome(o) == o # <<>>
Unwrap(o) == o[1]

Max(a, b) == IF a >= b THEN a ELSE b
Min(a, b) == IF a <= b THEN a ELSE b

---------------------------------------------------------------------------
(* The collaborators' content: the store, the early attester cache.        *)

finalized_slot == 2

\* transactions lists a payload body may carry, and their tree-hash roots
Transactions == {1, 2}
TreeHashRoot(txs) == 100 + txs

StreamRoots == 1..9
PackRoots == 101..(100 + MaxPackPushes)
RangeNumbers == {0, 1, 2, 3, 30, 31, 32, 33, 34, 35}
RangeRoots == {200 + n : n \in RangeNumbers}

Header(hash, number, txs) ==
    [block_hash |-> hash, number |-> number, transactions_root |-> TreeHashRoot(txs)]

Blinded(root, slot, header_opt) ==
    [variant |-> "Blinded", root |-> root, slot |-> slot, header |-> header_opt]

FullBlock(root, txs) == [variant |-> "Full", root |-> root, transactions |-> txs]

\* store.try_get_full_block(&root): Err, Ok(None), Ok(Some(Full | Blinded))
try_get_full_block(root) ==
    CASE root = 1 -> [ok |-> TRUE, block |-> Some(Blinded(1, 3, Some(Header(1, 11, 1))))]
      [] root = 2 -> [ok |-> TRUE, block |-> Some(Blinded(2, 3, Some(Header(1, 11, 1))))]
      [] root = 3 -> [ok |-> TRUE, block |-> Some(Blinded(3, 4, Some(Header(2, 12, 2))))]
      [] root = 4 -> [ok |-> TRUE, block |-> Some(Blinded(4, 1, Some(Header(4, 1, 1))))]
      [] root = 5 -> [ok |-> TRUE, block |-> Some(Blinded(5, 2, Some(Header(5, 2, 2))))]
      [] root = 6 -> [ok |-> TRUE, block |-> Some(FullBlock(6, 1))]
      [] root = 7 -> [ok |-> TRUE, block |-> None]
      [] root = 8 -> [ok |-> FALSE, block |-> None]
      [] root = 9 -> [ok |-> TRUE, block |-> Some(Blinded(9, 3, None))]
      [] root = 10 -> [ok |-> TRUE, block |-> Some(Blinded(10, 2, Some(Header(10, 40, 1))))]
      [] root \in PackRoots ->
            [ok |-> TRUE, block |-> Some(Blinded(root, 3, Some(Header(root, root, 1))))]
      [] root \in RangeRoots ->
            [ok |-> TRUE, block |-> Some(Blinded(root, 1, Some(Header(root, root - 200, 1))))]
      [] OTHER -> [ok |-> TRUE, block |-> None]

\* beacon_chain.early_attester_cache.get_block(root): holds the block of root 1
early_attester_cache(root) == IF root = 1 THEN Some(FullBlock(1, 1)) ELSE None

---------------------------------------------------------------------------
(* Block results: Arc<BlockResult<E>> *)

OkNone == [tag |-> "OkNone"]
OkBlock(block) == [tag |-> "OkBlock", block |-> block]
ErrStore(root) == [tag |-> "Err", kind |-> "StoreError", root |-> root]
ErrLacksPayload(root) ==
    [tag |-> "Err", kind |-> "BlockVariantLacksExecutionPayload", root |-> root]
ErrInconsistent(slot, hash, canonical, reconstructed) ==
    [tag |-> "Err", kind |-> "InconsistentPayloadReconstructed", slot |-> slot,
     exec_block_hash |-> hash, canonical_transactions_root |-> canonical,
     reconstructed_transactions_root |-> reconstructed]
ErrPayloadReconstruction == [tag |-> "Err", kind |-> "PayloadReconstruction"]
ErrAddPayloadLogic == [tag |-> "Err", kind |-> "AddPayloadLogicError"]
ErrMissing(hash) ==
    [tag |-> "Err", kind |-> "BlockHashMissingFromExecutionLayer", hash |-> hash]
ErrByHashFailure == [tag |-> "Err", kind |-> "BlocksByHashFailure"]
ErrByRangeFailure == [tag |-> "Err", kind |-> "BlocksByRangeFailure"]
ErrBlockNotFound == [tag |-> "Err", kind |-> "BlockNotFound"]
ErrCapabilities == [tag |-> "Err", kind |-> "EngineGetCapabilititesFailed"]

---------------------------------------------------------------------------
(* BlockParts and the reconstruction of a block from header and body       *)

BlockParts_new(blinded, header) ==
    [blinded_block |-> blinded, header |-> header, body |-> None]

\* ExecutionPayloadBodyV1: the transactions; a body of the wrong fork variant
\* cannot be turned into a payload
Body(txs) == [transactions |-> txs, wellformed |-> TRUE]
BadBody == [transactions |-> 1, wellformed |-> FALSE]
Bodies == {Body(t) : t \in Transactions} \cup {BadBody}
OptBodies == {None} \cup {Some(b) : b \in Bodies}

\* payload_body.to_payload(header): the header's fields with the body's transactions
to_payload(body, header) ==
    IF body.wellformed
    THEN [ok |-> TRUE,
          payload |-> [block_hash |-> header.block_hash, number |-> header.number,
                       transactions |-> body.transactions]]
    ELSE [ok |-> FALSE, payload |-> None]

\* ExecutionPayloadHeader::from(payload.to_ref())
HeaderFromPayload(payload) ==
    [block_hash |-> payload.block_hash, number |-> payload.number,
     transactions_root |-> TreeHashRoot(payload.transactions)]

\* blinded_block.try_into_full_block(Some(payload))
try_into_full_block(blinded, payload) ==
    Some(FullBlock(blinded.root, payload.transactions))

---------------------------------------------------------------------------
(* reconstruct_bocks: one result per entry of block_parts_with_bodies      *)

ReconstructMismatch(parts, payload) ==
    ErrInconsistent(parts.blinded_block.slot, parts.header.block_hash,
                    parts.header.transactions_root,
                    HeaderFromPayload(payload).transactions_root)

ReconstructAcceptAny(parts, payload) ==
    LET full == try_into_full_block(parts.blinded_block, payload)
    IN IF IsSome(full) THEN OkBlock(Unwrap(full)) ELSE ErrAddPayloadLogic

\* lines 98-121: the recomputed header against the claimed one
ReconstructChecked(parts, payload) ==
    IF HeaderFromPayload(payload) = parts.header
    THEN ReconstructAcceptAny(parts, payload)
    ELSE ReconstructMismatch(parts, payload)

\* the body of the for loop, lines 94-137
ReconstructOne(parts) ==
    IF IsSome(parts.body)
    THEN LET r == to_payload(Unwrap(parts.body), parts.header)
         IN IF r.ok THEN ReconstructChecked(parts, r.payload)
                    ELSE ErrPayloadReconstruction
    ELSE ErrMissing(parts.header.block_hash)

\* a HashMap<Hash256, _> is a function on the set of its keys
MapInsert(map, key, value) ==
    [k \in (DOMAIN map) \cup {key} |-> IF k = key THEN value ELSE map[k]]
MapRemove(map, key) == [k \in (DOMAIN map) \ {key} |-> map[k]]
MapGet(map, key) == IF key \in DOMAIN map THEN Some(map[key]) ELSE None
EmptyMap == [k \in {} |-> None]

reconstruct_bocks(block_map, block_parts_with_bodies) ==
    [root \in (DOMAIN block_map) \cup (DOMAIN block_parts_with_bodies) |->
        IF root \in DOMAIN block_parts_with_bodies
        THEN ReconstructOne(block_parts_with_bodies[root])
        ELSE block_map[root]]

---------------------------------------------------------------------------
(* BodiesByHash / BodiesByRange: one cell of the heap.  A cell keeps the    *)
(* fields of both structs; hashes is used by ByHash, start and count by    *)
(* ByRange.  state "UnSent" carries parts, state "Sent" carries results.    *)

Cell(kind, hashes, start, count, parts) ==
    [kind |-> kind, hashes |-> hashes, start |-> start, count |-> count,
     state |-> "UnSent", parts |-> parts, results |-> EmptyMap]

BodiesByHash_new(maybe_block_parts) ==
    IF IsSome(maybe_block_parts)
    THEN Cell("ByHash", Some(<<Unwrap(maybe_block_parts).header.block_hash>>), 0, 0,
              <<Unwrap(maybe_block_parts)>>)
    ELSE Cell("ByHash", None, 0, 0, <<>>)

BodiesByRange_new(maybe_block_parts) ==
    IF IsSome(maybe_block_parts)
    THEN Cell("ByRange", None, Unwrap(maybe_block_parts).header.number, 1,
              <<Unwrap(maybe_block_parts)>>)
    ELSE Cell("ByRange", None, 0, 0, <<>>)

\* Ok(()) is ret = None, Err(block_parts) is ret = Some(block_parts)
PushOk(cell) == [cell |-> cell, ret |-> None]
PushErr(cell, parts) == [cell |-> cell, ret |-> Some(parts)]

ByHashFullAt(cell, n) == IsSome(cell.hashes) /\ Len(Unwrap(cell.hashes)) = n

ByHashIsFullLate(cell) == ByHashFullAt(cell, BatchCapacity + 1)

\* line 157-161: this request is full
ByHashIsFull(cell) == ByHashFullAt(cell, BatchCapacity)

BodiesByHash_push_block_parts(cell, parts) ==
    IF ByHashIsFull(cell) THEN PushErr(cell, parts)
    ELSE IF cell.state = "Sent" THEN PushErr(cell, parts)
    ELSE PushOk([cell EXCEPT
            !.hashes = Some((IF IsSome(cell.hashes) THEN Unwrap(cell.hashes) ELSE <<>>)
                            \o <<parts.header.block_hash>>),
            !.parts = Append(cell.parts, parts)])

RangeOutsideNoUpper(cell, block_number) == block_number < cell.start

\* line 271: the block does not fit in the request
RangeOutside(cell, block_number) ==
    block_number < cell.start \/ cell.start + WindowSpan < block_number

BodiesByRange_push_block_parts(cell, parts) ==
    IF cell.count = BatchCapacity THEN PushErr(cell, parts)
    ELSE IF cell.state = "Sent" THEN PushErr(cell, parts)
    ELSE LET block_number == parts.header.number
         IN IF cell.count = 0
            THEN PushOk([cell EXCEPT !.start = block_number, !.count = 1,
                                     !.parts = Append(cell.parts, parts)])
            ELSE IF RangeOutside(cell, block_number)
            THEN PushErr(cell, parts)
            ELSE PushOk([cell EXCEPT
                    !.parts = Append(cell.parts, parts),
                    !.count = IF cell.start + cell.count <= block_number
                              THEN block_number - cell.start + 1
                              ELSE cell.count])

---------------------------------------------------------------------------
(* execute(): the engine call and what is made of its response             *)

\* responses of get_payload_bodies_by_hash / _by_range to a request of n bodies
EngineResponses(n) ==
    {[ok |-> FALSE, bodies |-> <<>>]} \cup
    {[ok |-> TRUE, bodies |-> bs] :
        bs \in UNION {[1..m -> OptBodies] : m \in Max(0, n - MaxShort)..n}}

\* keys.zip(bodies.chain(repeat(None))).collect::<HashMap<_, _>>()
ZipBodies(keys, bodies) ==
    [k \in {keys[i] : i \in DOMAIN keys} |->
        LET last == CHOOSE i \in DOMAIN keys :
                        keys[i] = k /\ \A j \in DOMAIN keys : keys[j] = k => j <= i
        IN IF last <= Len(bodies) THEN bodies[last] ELSE None]

PartsKey(kind, parts) ==
    IF kind = "ByHash" THEN parts.header.block_hash ELSE parts.header.number

\* body_map.remove(&key).flatten()
TakeBody(body_map, key) == IF key \in DOMAIN body_map THEN body_map[key] ELSE None

RECURSIVE AttachBodiesKeepFirst(_, _, _, _)
AttachBodiesKeepFirst(kind, parts_vec, body_map, acc) ==
    IF parts_vec = <<>> THEN acc
    ELSE LET parts == Head(parts_vec)
             root == parts.blinded_block.root
             key == PartsKey(kind, parts)
         IN IF root \in DOMAIN acc
            THEN AttachBodiesKeepFirst(kind, Tail(parts_vec), body_map, acc)
            ELSE AttachBodiesKeepFirst(kind, Tail(parts_vec), MapRemove(body_map, key),
                    MapInsert(acc, root, [parts EXCEPT !.body = TakeBody(body_map, key)]))

RECURSIVE AttachBodiesOverwriting(_, _, _, _)
AttachBodiesOverwriting(kind, parts_vec, body_map, acc) ==
    IF parts_vec = <<>> THEN acc
    ELSE LET parts == Head(parts_vec)
             key == PartsKey(kind, parts)
         IN AttachBodiesOverwriting(kind, Tail(parts_vec), MapRemove(body_map, key),
                MapInsert(acc, parts.blinded_block.root,
                          [parts EXCEPT !.body = TakeBody(body_map, key)]))

\* the for loop with insert(root, ..): the last copy of a root wins
AttachBodiesLastWins(kind, parts_vec, body_map) ==
    AttachBodiesOverwriting(kind, parts_vec, body_map, EmptyMap)

\* the for loop over block_parts_vec with entry(root).or_insert_with(..)
AttachBodies(kind, parts_vec, body_map) ==
    AttachBodiesKeepFirst(kind, parts_vec, body_map, EmptyMap)

RangeKeys(cell) == [i \in 1..cell.count |-> cell.start + i - 1]

RequestKeys(cell) ==
    IF cell.kind = "ByHash" THEN Unwrap(cell.hashes) ELSE RangeKeys(cell)

FailureOf(kind) == IF kind = "ByHash" THEN ErrByHashFailure ELSE ErrByRangeFailure

NeedsExecuteAlways(cell) == TRUE

\* `if let RequestState::UnSent(..)` and, by hash, `if let Some(hashes) = self.hashes.take()`
NeedsExecute(cell) ==
    cell.state = "UnSent" /\ (cell.kind = "ByHash" => IsSome(cell.hashes))

\* what execute() sends to the engine: the number of bodies asked for
RequestSize(cell) ==
    IF cell.kind = "ByHash"
    THEN (IF IsSome(cell.hashes) THEN Len(Unwrap(cell.hashes)) ELSE 0)
    ELSE cell.count

ExecuteWithBodies(cell, response) ==
    IF response.ok
    THEN AttachBodies(cell.kind, cell.parts, ZipBodies(RequestKeys(cell), response.bodies))
    ELSE EmptyMap

FailureMapFirstOnly(cell) ==
    IF cell.parts = <<>> THEN EmptyMap
    ELSE [root \in {cell.parts[1].blinded_block.root} |-> FailureOf(cell.kind)]

\* the Err(e) arm of execute(): one shared result inserted for every block_parts
FailureMap(cell) ==
    [root \in {cell.parts[i].blinded_block.root : i \in DOMAIN cell.parts} |->
        FailureOf(cell.kind)]

\* the two match arms of execute() and `self.state = RequestState::Sent(block_map)`
ExecuteFinish(cell, response) ==
    LET block_map ==
            IF response.ok
            THEN reconstruct_bocks(EmptyMap, ExecuteWithBodies(cell, response))
            ELSE FailureMap(cell)
    IN [cell EXCEPT !.state = "Sent", !.results = block_map, !.parts = <<>>,
                    !.hashes = IF cell.kind = "ByHash" THEN None ELSE @]

\* Bodies*::get_block_result after execute(): map.get(root).cloned()
CellResult(cell, root) ==
    IF cell.state = "Sent" THEN MapGet(cell.results, root) ELSE None

\* EngineRequest::get_block_result: .unwrap_or_else(|| .. BlockNotFound)
ResultOrNotFound(opt) == IF IsSome(opt) THEN Unwrap(opt) ELSE ErrBlockNotFound

---------------------------------------------------------------------------
(* EngineRequest handles and get_requests                                  *)

Handle(kind, cell) == [kind |-> kind, cell |-> cell]
NoRequestHandle == Handle("NoRequest", 0)

CellPush(cell, parts) ==
    IF cell.kind = "ByHash" THEN BodiesByHash_push_block_parts(cell, parts)
    ELSE BodiesByRange_push_block_parts(cell, parts)

CellNew(kind, maybe_parts) ==
    IF kind = "ByHash" THEN BodiesByHash_new(maybe_parts) ELSE BodiesByRange_new(maybe_parts)

EngineRequest_push_block_partsDropping(handle, cells, parts) ==
    LET r == CellPush(cells[handle.cell], parts)
    IN IF r.ret = None
       THEN [handle |-> handle, cells |-> [cells EXCEPT ![handle.cell] = r.cell],
             ret |-> r.ret]
       ELSE [handle |-> Handle(handle.kind, Len(cells) + 1),
             cells |-> Append(cells, CellNew(handle.kind, None)),
             ret |-> r.ret]

\* EngineRequest::push_block_parts on a ByHash or ByRange handle: the handle
\* and the heap afterwards, and what the inner push returned
EngineRequest_push_block_parts(handle, cells, parts) ==
    LET r == CellPush(cells[handle.cell], parts)
    IN IF r.ret = None
       THEN [handle |-> handle, cells |-> [cells EXCEPT ![handle.cell] = r.cell],
             ret |-> r.ret]
       ELSE [handle |-> Handle(handle.kind, Len(cells) + 1),
             cells |-> Append(cells, CellNew(handle.kind, r.ret)),
             ret |-> r.ret]

\* check_early_attester_cache(root)
CachedBlock(check, root) == IF check THEN early_attester_cache(root) ELSE None

\* load_payloads: for one root
LoadPayload(check, root) ==
    IF IsSome(CachedBlock(check, root))
    THEN [ok |-> TRUE, block |-> CachedBlock(check, root)]
    ELSE try_get_full_block(root)

load_payloads(check, block_roots_) ==
    [i \in DOMAIN block_roots_ |->
        [root |-> block_roots_[i], load |-> LoadPayload(check, block_roots_[i])]]

\* the locals of get_requests before its first loop
GetRequestsStart ==
    [ordered_block_roots |-> <<>>, requests |-> EmptyMap, by_range_blocks |-> <<>>,
     by_hash |-> Handle("ByHash", 1), by_range |-> Handle("ByRange", 0),
     no_request |-> EmptyMap, cells |-> <<BodiesByHash_new(None)>>, ret |-> None]

IsByRangeSlotStrict(slot) == slot < finalized_slot

\* line 564: block_parts.slot() <= self.finalized_slot
IsByRangeSlot(slot) == slot <= finalized_slot

NoRequestResult(root, load) ==
    IF ~load.ok THEN ErrStore(root)
    ELSE IF load.block = None THEN OkNone
    ELSE OkBlock(Unwrap(load.block))

\* one iteration of the first loop of get_requests (lines 551-601)
GetRequestsPayload(g, root, load) ==
    LET g1 == [g EXCEPT !.ordered_block_roots = Append(@, root), !.ret = None]
    IN IF load.ok /\ IsSome(load.block) /\ Unwrap(load.block).variant = "Blinded"
       THEN LET blinded == Unwrap(load.block)
            IN IF IsSome(blinded.header)
               THEN LET parts == BlockParts_new(blinded, Unwrap(blinded.header))
                    IN IF IsByRangeSlot(blinded.slot)
                       THEN [g1 EXCEPT !.by_range_blocks = Append(@, parts)]
                       ELSE LET p == EngineRequest_push_block_parts(g1.by_hash, g1.cells, parts)
                            IN [g1 EXCEPT !.by_hash = p.handle, !.cells = p.cells,
                                          !.ret = p.ret,
                                          !.requests = MapInsert(@, root, p.handle)]
               ELSE [g1 EXCEPT !.no_request = MapInsert(@, root, ErrLacksPayload(root)),
                               !.requests = MapInsert(@, root, NoRequestHandle)]
       ELSE [g1 EXCEPT !.no_request = MapInsert(@, root, NoRequestResult(root, load)),
                       !.requests = MapInsert(@, root, NoRequestHandle)]

RECURSIVE GetRequestsLoop(_, _)
GetRequestsLoop(g, payloads) ==
    IF payloads = <<>> THEN g
    ELSE GetRequestsLoop(GetRequestsPayload(g, Head(payloads).root, Head(payloads).load),
                         Tail(payloads))

\* by_range_blocks.sort_by_key(|block_parts| block_parts.slot()): a stable sort
RECURSIVE InsertBySlot(_, _)
InsertBySlot(sorted, parts) ==
    IF sorted = <<>> THEN <<parts>>
    ELSE IF parts.blinded_block.slot < Head(sorted).blinded_block.slot
    THEN <<parts>> \o sorted
    ELSE <<Head(sorted)>> \o InsertBySlot(Tail(sorted), parts)

RECURSIVE SortBySlotFrom(_, _)
SortBySlotFrom(sorted, rest) ==
    IF rest = <<>> THEN sorted
    ELSE SortBySlotFrom(InsertBySlot(sorted, Head(rest)), Tail(rest))

sort_by_slot(parts_vec) == SortBySlotFrom(<<>>, parts_vec)

\* line 605: EngineRequest::new_by_range()
GetRequestsNewByRange(g) ==
    [g EXCEPT !.by_range = Handle("ByRange", Len(g.cells) + 1),
              !.cells = Append(g.cells, BodiesByRange_new(None))]

\* one iteration of the second loop of get_requests (lines 607-613)
GetRequestsRangeItem(g, parts) ==
    LET p == EngineRequest_push_block_parts(g.by_range, g.cells, parts)
    IN [g EXCEPT !.by_range = p.handle, !.cells = p.cells, !.ret = p.ret,
                 !.requests = MapInsert(@, parts.blinded_block.root, p.handle)]

RECURSIVE GetRequestsRangeLoop(_, _)
GetRequestsRangeLoop(g, parts_vec) ==
    IF parts_vec = <<>> THEN g
    ELSE GetRequestsRangeLoop(GetRequestsRangeItem(g, Head(parts_vec)), Tail(parts_vec))

OrderedRootsSorted(g) ==
    [g EXCEPT !.ordered_block_roots =
        LET rs == g.ordered_block_roots
            by_range == {rs[i] : i \in DOMAIN rs} \cap
                        {g.by_range_blocks[i].blinded_block.root : i \in DOMAIN g.by_range_blocks}
        IN SelectSeq(rs, LAMBDA r : r \notin by_range) \o
           [i \in DOMAIN g.by_range_blocks |-> g.by_range_blocks[i].blinded_block.root]]

\* the roots get_requests returns: in the order of the payloads
OrderedRoots(g) == g

get_requests(payloads) ==
    LET g1 == GetRequestsLoop(GetRequestsStart, payloads)
        g2 == GetRequestsNewByRange(g1)
    IN OrderedRoots(GetRequestsRangeLoop(g2, sort_by_slot(g2.by_range_blocks)))

---------------------------------------------------------------------------
(* The spawned task of stream() and the tasks sharing the request handles  *)

StreamTask == 0
\* two other tasks hold clones of the EngineRequest handles
AuxTasks == {1, 2}
Tasks == {StreamTask} \cup AuxTasks

Idle == [phase |-> "idle", root |-> 0, cell |-> 0]
Free == -1

RequestLists == UNION {[1..n -> StreamRoots] : n \in 0..MaxRoots}

StreamInit ==
    /\ block_roots \in RequestLists
    /\ check_cache \in BOOLEAN
    /\ spc = "spawned"
    /\ roots = <<>>
    /\ request_map = EmptyMap
    /\ heap = <<>>
    /\ no_request = EmptyMap
    /\ idx = 1
    /\ cur = [t \in Tasks |-> Idle]
    /\ sent = <<>>
    /\ rx_open = TRUE
    /\ lock = <<>>
    /\ engine_calls = <<>>
    /\ fetches = 0
    /\ aux = [t \in AuxTasks |-> 0]
    /\ returned = {}
    /\ with_bodies = <<>>

\* no streamer has been constructed
StreamIdle ==
    /\ block_roots = <<>>
    /\ check_cache = FALSE
    /\ spc = "none"
    /\ roots = <<>>
    /\ request_map = EmptyMap
    /\ heap = <<>>
    /\ no_request = EmptyMap
    /\ idx = 1
    /\ cur = [t \in Tasks |-> Idle]
    /\ sent = <<>>
    /\ rx_open = TRUE
    /\ lock = <<>>
    /\ engine_calls = <<>>
    /\ fetches = 0
    /\ aux = [t \in AuxTasks |-> 0]
    /\ returned = {}
    /\ with_bodies = <<>>

Capabilities ==
    {[ok |-> FALSE, by_hash |-> FALSE, by_range |-> FALSE]} \cup
    {[ok |-> TRUE, by_hash |-> h, by_range |-> r] : h \in BOOLEAN, r \in BOOLEAN}

StreamPathIgnoresFailure(caps) ==
    IF caps.by_hash /\ caps.by_range THEN "stream_blocks" ELSE "stream_blocks_fallback"

StreamPathEither(caps) ==
    IF ~caps.ok THEN "send_errors"
    ELSE IF caps.by_hash \/ caps.by_range THEN "stream_blocks"
    ELSE "stream_blocks_fallback"

\* lines 685-697: which path the task takes
StreamPath(caps) ==
    IF ~caps.ok THEN "send_errors"
    ELSE IF caps.by_hash /\ caps.by_range THEN "stream_blocks"
    ELSE "stream_blocks_fallback"

\* the loop ends one index early
LoopAtEarly(loop, i, n) == IF i >= n THEN "done" ELSE loop

\* the position after the loop body ran for index i of a list of n roots
LoopAt(loop, i, n) == IF i > n THEN "done" ELSE loop

\* stream(): the task is spawned and get_engine_capabilities(None) answers
Stream ==
    /\ spc = "spawned"
    /\ \E caps \in Capabilities :
         spc' = LoopAt(StreamPath(caps), 1,
                       IF StreamPath(caps) = "stream_blocks" THEN 1 ELSE Len(block_roots))
    /\ UNCHANGED <<block_roots, check_cache, roots, request_map, heap, no_request, idx,
                   cur, sent, rx_open, lock, engine_calls, fetches, aux, returned,
                   with_bodies>>
    /\ UNCHANGED not_s

\* storage reads load_payloads performs: one per root the cache does not hold
LoadCount(check, block_roots_) ==
    Cardinality({i \in DOMAIN block_roots_ : CachedBlock(check, block_roots_[i]) = None})

\* stream_blocks lines 646-647: load_payloads and get_requests
StreamBlocksPrepare ==
    /\ spc = "stream_blocks"
    /\ LET g == get_requests(load_payloads(check_cache, block_roots))
       IN /\ roots' = g.ordered_block_roots
          /\ request_map' = g.requests
          /\ heap' = g.cells
          /\ no_request' = g.no_request
          /\ lock' = [c \in DOMAIN g.cells |-> Free]
          /\ engine_calls' = [c \in DOMAIN g.cells |-> 0]
          /\ with_bodies' = [c \in DOMAIN g.cells |-> EmptyMap]
          /\ spc' = LoopAt("for_roots", 1, Len(g.ordered_block_roots))
    /\ fetches' = fetches + LoadCount(check_cache, block_roots)
    /\ idx' = 1
    /\ UNCHANGED <<block_roots, check_cache, cur, sent, rx_open, aux, returned>>
    /\ UNCHANGED not_s

SendOrSkip(loop, n, root, result) ==
    IF rx_open
    THEN /\ sent' = Append(sent, [root |-> root, result |-> result])
         /\ idx' = idx + 1
         /\ spc' = LoopAt(loop, idx + 1, n)
    ELSE /\ sent' = sent
         /\ idx' = idx + 1
         /\ spc' = LoopAt(loop, idx + 1, n)

\* sender.send((root, result)) and the loop's `break` on a closed channel
SendOrBreak(loop, n, root, result) ==
    IF rx_open
    THEN /\ sent' = Append(sent, [root |-> root, result |-> result])
         /\ idx' = idx + 1
         /\ spc' = LoopAt(loop, idx + 1, n)
    ELSE /\ sent' = sent
         /\ idx' = idx
         /\ spc' = "done"

\* what a task does with the result get_block_result returned
Deliver(t, cell, root, result) ==
    /\ returned' = returned \cup {<<t, cell, root, result>>}
    /\ cur' = [cur EXCEPT ![t] = Idle]
    /\ IF t = StreamTask
       THEN SendOrBreak("for_roots", Len(roots), root, result)
       ELSE UNCHANGED <<sent, idx, spc>>

\* the write guard is held: execute() and, if nothing is to be sent, the lookup
Acquired(t, cell, root) ==
    IF NeedsExecute(heap[cell])
    THEN /\ lock' = [lock EXCEPT ![cell] = t]
         /\ engine_calls' = [engine_calls EXCEPT ![cell] = @ + 1]
         /\ cur' = [cur EXCEPT ![t] = [phase |-> "engine_wait", root |-> root, cell |-> cell]]
         /\ UNCHANGED <<returned, sent, idx, spc>>
    ELSE /\ UNCHANGED <<lock, engine_calls>>
         /\ Deliver(t, cell, root, ResultOrNotFound(CellResult(heap[cell], root)))

\* EngineRequest::get_block_result(root) called by task t
GetBlockResult(t, root) ==
    /\ cur[t].phase = "idle"
    /\ IF root \notin DOMAIN request_map
       THEN /\ t = StreamTask
            /\ Deliver(t, 0, root, ErrBlockNotFound)
            /\ UNCHANGED <<lock, engine_calls>>
       ELSE LET handle == request_map[root]
            IN IF handle.kind = "NoRequest"
               THEN /\ Deliver(t, 0, root, ResultOrNotFound(MapGet(no_request, root)))
                    /\ UNCHANGED <<lock, engine_calls>>
               ELSE IF lock[handle.cell] = Free
               THEN Acquired(t, handle.cell, root)
               ELSE /\ cur' = [cur EXCEPT ![t] = [phase |-> "lock_wait", root |-> root,
                                                  cell |-> handle.cell]]
                    /\ UNCHANGED <<lock, engine_calls, returned, sent, idx, spc>>
    /\ UNCHANGED <<block_roots, check_cache, roots, request_map, heap, no_request,
                   rx_open, fetches, with_bodies>>
    /\ UNCHANGED not_s

\* stream_blocks lines 649-666: the loop body for roots[idx]
StreamBlocksNext ==
    /\ spc = "for_roots"
    /\ GetBlockResult(StreamTask, roots[idx])
    /\ UNCHANGED aux

\* by_hash.write().await / by_range.write().await returns the guard
WriteAcquired(t) ==
    /\ cur[t].phase = "lock_wait"
    /\ lock[cur[t].cell] = Free
    /\ Acquired(t, cur[t].cell, cur[t].root)
    /\ UNCHANGED <<block_roots, check_cache, roots, request_map, heap, no_request,
                   rx_open, fetches, with_bodies, aux>>
    /\ UNCHANGED not_s

\* get_payload_bodies_by_hash / _by_range returns to execute()
EngineReturn(t) ==
    /\ cur[t].phase = "engine_wait"
    /\ LET c == cur[t].cell
       IN \E response \in EngineResponses(RequestSize(heap[c])) :
            /\ heap' = [heap EXCEPT ![c] = ExecuteFinish(heap[c], response)]
            /\ with_bodies' = [with_bodies EXCEPT ![c] = ExecuteWithBodies(heap[c], response)]
            /\ lock' = [lock EXCEPT ![c] = Free]
            /\ Deliver(t, c, cur[t].root,
                       ResultOrNotFound(CellResult(ExecuteFinish(heap[c], response), cur[t].root)))
    /\ UNCHANGED <<block_roots, check_cache, roots, request_map, no_request,
                   rx_open, fetches, engine_calls, aux>>
    /\ UNCHANGED not_s

\* another holder of the cloned handles asks for the result of a root
AuxGetBlockResult(t) ==
    /\ t \in AuxTasks
    /\ spc \in {"for_roots", "done"}
    /\ aux[1] + aux[2] < MaxAuxCalls
    /\ \E root \in DOMAIN request_map : GetBlockResult(t, root)
    /\ aux' = [aux EXCEPT ![t] = @ + 1]

\* beacon_chain.get_block(&root): the general block-retrieval path
ErrGetBlock(root) == [tag |-> "Err", kind |-> "GetBlockFailed", root |-> root]
GetBlockOutcomes(root) ==
    LET load == try_get_full_block(root)
    IN IF ~load.ok THEN {ErrStore(root)}
       ELSE IF load.block = None THEN {OkNone}
       ELSE IF Unwrap(load.block).variant = "Full" THEN {OkBlock(Unwrap(load.block))}
       ELSE {OkBlock(FullBlock(root, 1)), ErrGetBlock(root)}

\* stream_blocks_fallback lines 624-638: the loop body for block_roots[idx]
StreamBlocksFallbackNext ==
    /\ spc = "stream_blocks_fallback"
    /\ LET root == block_roots[idx]
           cached == CachedBlock(check_cache, root)
       IN IF IsSome(cached)
          THEN /\ SendOrBreak("stream_blocks_fallback", Len(block_roots), root,
                              OkBlock(Unwrap(cached)))
               /\ fetches' = fetches
          ELSE /\ \E result \in GetBlockOutcomes(root) :
                    SendOrBreak("stream_blocks_fallback", Len(block_roots), root, result)
               /\ fetches' = fetches + 1
    /\ UNCHANGED <<block_roots, check_cache, roots, request_map, heap, no_request, cur,
                   rx_open, lock, engine_calls, aux, returned, with_bodies>>
    /\ UNCHANGED not_s

\* send_errors lines 713-717: the loop body for block_roots[idx]
SendErrorsNext ==
    /\ spc = "send_errors"
    /\ SendOrBreak("send_errors", Len(block_roots), block_roots[idx], ErrCapabilities)
    /\ UNCHANGED <<block_roots, check_cache, roots, request_map, heap, no_request, cur,
                   rx_open, lock, engine_calls, fetches, aux, returned, with_bodies>>
    /\ UNCHANGED not_s

\* the consumer drops the UnboundedReceiverStream
DropReceiver ==
    /\ rx_open
    /\ spc \notin {"none", "done"}
    /\ rx_open' = FALSE
    /\ UNCHANGED <<block_roots, check_cache, spc, roots, request_map, heap, no_request,
                   idx, cur, sent, lock, engine_calls, fetches, aux, returned, with_bodies>>
    /\ UNCHANGED not_s

---------------------------------------------------------------------------
(* Packing: push_block_parts sequences on the batches of get_requests      *)

PackIdle ==
    /\ pack = GetRequestsStart
    /\ pack_last = None

PackHashInit ==
    /\ pack = GetRequestsStart
    /\ pack_last = None

PackRangeInit ==
    /\ pack = GetRequestsNewByRange(GetRequestsStart)
    /\ pack_last = None

PartsOf(root) ==
    LET blinded == Unwrap(try_get_full_block(root).block)
    IN BlockParts_new(blinded, Unwrap(blinded.header))

\* the by-hash payloads packed so far are roots 101, 102, .. in this order,
\* with at most MaxDups repetitions of an earlier root
PackedDistinct == Cardinality({pack.ordered_block_roots[i] : i \in DOMAIN pack.ordered_block_roots})
PackedDups == Len(pack.ordered_block_roots) - PackedDistinct

\* one iteration of the first loop of get_requests on an unfinalized blinded block
PackByHash ==
    /\ Len(pack.ordered_block_roots) < MaxPackPushes
    /\ \E root \in PackRoots :
         /\ \/ root = 101 + PackedDistinct
            \/ root \in {101, 100 + PackedDistinct} /\ PackedDistinct > 0 /\ PackedDups < MaxDups
         /\ pack' = GetRequestsPayload(pack, root, try_get_full_block(root))
         /\ pack_last' = Some([parts |-> PartsOf(root), before |-> pack])
    /\ UNCHANGED not_p

\* one iteration of the second loop of get_requests, in any order of block numbers
PackByRange ==
    /\ Len(pack.by_range_blocks) < MaxRangePushes
    /\ \E root \in RangeRoots :
         /\ pack' = [GetRequestsRangeItem(pack, PartsOf(root)) EXCEPT
                        !.by_range_blocks = Append(@, PartsOf(root))]
         /\ pack_last' = Some([parts |-> PartsOf(root), before |-> pack])
    /\ UNCHANGED not_p

---------------------------------------------------------------------------
(* single_block_lookup.rs: SingleLookupRequestState                        *)

MAX_ATTEMPTS == 3
U8Max == 255
MaxBlobsPerBlock == 2
NumPeers == 2               \* peers the sync manager knows
MaxFailures == 3            \* failures registered on a lookup, both trackers together
MaxFailedProcessing == 1    \* processing failures while the download counter saturates

Peers == 1..NumPeers
RequestedRoot == 1
OtherRoot == 2

BlockAndBlobs(peer_id) == [kind |-> "BlockAndBlobs", id |-> peer_id]
Neither(peer_id) == [kind |-> "Neither", id |-> peer_id]
NoPeer == [kind |-> "None", id |-> 0]
PeerSources == {BlockAndBlobs(p) : p \in Peers} \cup {Neither(p) : p \in Peers}

\* PeerShouldHave::should_have_block / as_peer_id
should_have_block(peer_source) == peer_source.kind = "BlockAndBlobs"
as_peer_id(peer_source) == peer_source.id

AwaitingDownload == [tag |-> "AwaitingDownload", peer_id |-> NoPeer]
Downloading(peer_source) == [tag |-> "Downloading", peer_id |-> peer_source]
Processing(peer_source) == [tag |-> "Processing", peer_id |-> peer_source]

SingleLookupRequestState_new(peer_source) ==
    [state |-> AwaitingDownload,
     available_peers |-> IF peer_source.kind = "BlockAndBlobs" THEN {peer_source.id} ELSE {},
     potential_peers |-> IF peer_source.kind = "Neither" THEN {peer_source.id} ELSE {},
     used_peers |-> {},
     failed_processing |-> 0,
     failed_downloading |-> 0,
     component_processed |-> FALSE]

\* u8::saturating_add(1)
saturating_add_1(x) == IF x >= U8Max THEN U8Max ELSE x + 1

register_failure_processing(t) ==
    [t EXCEPT !.failed_processing = saturating_add_1(@), !.state = AwaitingDownload]

register_failure_downloadingKeepsState(t) ==
    [t EXCEPT !.failed_downloading = saturating_add_1(@)]

register_failure_downloading(t) ==
    [t EXCEPT !.failed_downloading = saturating_add_1(@), !.state = AwaitingDownload]

\* the u8 sum of line 483 overflows: a panic where overflow checks are compiled
\* in, a wrapped value where they are not
AttemptsOverflow(t) == t.failed_processing + t.failed_downloading > U8Max

FailedAttemptsExact(t) == t.failed_processing + t.failed_downloading

failed_attempts(t) == (t.failed_processing + t.failed_downloading) % (U8Max + 1)

add_peer(t, peer_id) ==
    [t EXCEPT !.potential_peers = @ \ {peer_id}, !.available_peers = @ \cup {peer_id}]

add_potential_peer(t, peer_id) ==
    IF peer_id \in t.available_peers
    THEN [t EXCEPT !.potential_peers = @ \cup {peer_id}]
    ELSE t

\* Err(()) is ok = FALSE
check_peer_disconnected(t, dc_peer_id) ==
    LET t1 == [t EXCEPT !.available_peers = @ \ {dc_peer_id},
                        !.potential_peers = @ \ {dc_peer_id}]
    IN IF t.state.tag = "Downloading" /\ as_peer_id(t.state.peer_id) = dc_peer_id
       THEN [tracker |-> register_failure_downloading(t1), ok |-> FALSE]
       ELSE [tracker |-> t1, ok |-> TRUE]

\* a removal that does not look at what would be left
remove_peer_if_uselessAlways(t, peer_id) ==
    [t EXCEPT !.potential_peers = @ \ {peer_id}]

remove_peer_if_useless(t, peer_id) ==
    IF t.available_peers # {} \/ Cardinality(t.potential_peers) > 1
    THEN [t EXCEPT !.potential_peers = @ \ {peer_id}]
    ELSE t

\* Ok(peer) is Some(peer), Err(()) is None
processing_peer(t) == IF t.state.tag = "Processing" THEN Some(t.state.peer_id) ELSE None
peer(t) == IF t.state.tag \in {"Processing", "Downloading"} THEN Some(t.state.peer_id) ELSE None

---------------------------------------------------------------------------
(* The availability checker and the out-of-band components                 *)

BlobIndices == 0..(MaxBlobsPerBlock - 1)
BlobIdentifier(root, index) == [block_root |-> root, index |-> index]
BlobSidecar(root, index) == [block_root |-> root, index |-> index]
\* the block of the requested root commits to blob 0 only; another block hashes
\* to another root
Block(root) == [root |-> root, commitments |-> IF root = RequestedRoot THEN {0} ELSE {}]
get_block_root(block) == block.root

EmptyBlobList == [i \in BlobIndices |-> None]
FixedBlobLists == [BlobIndices -> {None, Some(BlobSidecar(RequestedRoot, 0)),
                                   Some(BlobSidecar(RequestedRoot, 1))}]

RECURSIVE SetToSeq(_)
SetToSeq(set) ==
    IF set = {} THEN <<>>
    ELSE LET m == CHOOSE x \in set : \A y \in set : x <= y
         IN <<m>> \o SetToSeq(set \ {m})

\* da_checker.get_missing_blob_ids(root, maybe_block, Some(indices))
get_missing_blob_ids(root, maybe_block, indices) ==
    LET wanted == IF IsSome(maybe_block) THEN Unwrap(maybe_block).commitments
                  ELSE BlobIndices
        missing == SetToSeq(wanted \ indices)
    IN [i \in DOMAIN missing |-> BlobIdentifier(root, missing[i])]

\* da_checker.get_missing_blob_ids_checking_cache(root)
get_missing_blob_ids_checking_cache(root) ==
    get_missing_blob_ids(root, da_checker.block, da_checker.blobs)

\* da_checker.has_block(&root)
has_block(root) == IsSome(da_checker.block)

\* UnknownParentComponents::downloaded_indices
downloaded_indices(components) ==
    {i \in BlobIndices : IsSome(components.downloaded_blobs[i])}

UnknownParentComponents(block_opt, blobs) ==
    [downloaded_block |-> block_opt, downloaded_blobs |-> blobs]

\* update_blobs_request: the value requested_ids gets
MissingIds ==
    IF IsSome(unknown_parent_components)
    THEN get_missing_blob_ids(RequestedRoot,
                              Unwrap(unknown_parent_components).downloaded_block,
                              downloaded_indices(Unwrap(unknown_parent_components)))
    ELSE get_missing_blob_ids_checking_cache(RequestedRoot)

---------------------------------------------------------------------------
(* SingleBlockLookup: the operations the sync manager calls               *)

Ok(value) == [tag |-> "Ok", value |-> value]
Err(error) == [tag |-> "Err", value |-> error]
TooManyAttempts(cannot_process) ==
    [kind |-> "TooManyAttempts", cannot_process |-> cannot_process]
NoPeers == [kind |-> "NoPeers", cannot_process |-> FALSE]
Panicked == [tag |-> "Panic", value |-> None]
\* a call's record: the operation, the tracker it is about, the response or
\* the peer it was handed (None for the operations that take none) and what it
\* returned
RetOn(op, which, arg, ret) == [op |-> op, which |-> which, arg |-> arg, ret |-> ret]
Ret(op, which, ret) == RetOn(op, which, None, ret)

\* the thread that owns the lookup has not panicked
Alive == IF lookup_ret = None THEN TRUE ELSE Unwrap(lookup_ret).ret.tag # "Panic"

LookupInit ==
    /\ \E peer_source \in PeerSources :
         /\ block_request_state = SingleLookupRequestState_new(peer_source)
         /\ blob_request_state = SingleLookupRequestState_new(peer_source)
    /\ requested_ids = <<>>
    /\ blob_download_queue = EmptyBlobList
    /\ unknown_parent_components \in
         {None, Some(UnknownParentComponents(None, EmptyBlobList))}
    /\ da_checker = [block |-> None, blobs |-> {}]
    /\ lookup_ret = None

\* no lookup has been created
LookupIdle ==
    /\ block_request_state = SingleLookupRequestState_new(NoPeer)
    /\ blob_request_state = SingleLookupRequestState_new(NoPeer)
    /\ requested_ids = <<>>
    /\ blob_download_queue = EmptyBlobList
    /\ unknown_parent_components = None
    /\ da_checker = [block |-> None, blobs |-> {}]
    /\ lookup_ret = None

TrackerOf(which) == IF which = "block" THEN block_request_state ELSE blob_request_state

\* a tracker update that writes both trackers
SetTrackerBoth(which, t) == block_request_state' = t /\ blob_request_state' = t

SetTracker(which, t) ==
    IF which = "block"
    THEN block_request_state' = t /\ UNCHANGED blob_request_state
    ELSE blob_request_state' = t /\ UNCHANGED block_request_state

CannotProcessStrict(t) == t.failed_processing > t.failed_downloading

\* lines 322-323: cannot_process
CannotProcess(t) == t.failed_processing >= t.failed_downloading

AttemptsExhaustedNever(t) == FALSE

\* line 320: self.block_request_state.failed_attempts() >= MAX_ATTEMPTS
AttemptsExhausted(t) == failed_attempts(t) >= MAX_ATTEMPTS

RequestOutcomesPotentialFirst(t) ==
    IF AttemptsExhausted(t)
    THEN {[tracker |-> t, ret |-> Err(TooManyAttempts(CannotProcess(t)))]}
    ELSE IF t.potential_peers # {}
    THEN {[tracker |-> [t EXCEPT !.used_peers = @ \cup {p},
                                 !.state = Downloading(Neither(p))],
           ret |-> Ok(Some(p))] : p \in t.potential_peers}
    ELSE IF t.available_peers # {}
    THEN {[tracker |-> [t EXCEPT !.used_peers = @ \cup {p},
                                 !.state = Downloading(BlockAndBlobs(p))],
           ret |-> Ok(Some(p))] : p \in t.available_peers}
    ELSE {[tracker |-> t, ret |-> Err(NoPeers)]}

\* lines 320-357 and 373-410: what the tracker answers to a request, for each
\* peer the random choice may pick
RequestOutcomes(t) ==
    IF AttemptsExhausted(t)
    THEN {[tracker |-> t, ret |-> Err(TooManyAttempts(CannotProcess(t)))]}
    ELSE IF t.available_peers # {}
    THEN {[tracker |-> [t EXCEPT !.used_peers = @ \cup {p},
                                 !.state = Downloading(BlockAndBlobs(p))],
           ret |-> Ok(Some(p))] : p \in t.available_peers}
    ELSE IF t.potential_peers # {}
    THEN {[tracker |-> [t EXCEPT !.used_peers = @ \cup {p},
                                 !.state = Downloading(Neither(p))],
           ret |-> Ok(Some(p))] : p \in t.potential_peers}
    ELSE {[tracker |-> t, ret |-> Err(NoPeers)]}

\* the debug_assert! of lines 316 and 369, and the overflow check of line 483,
\* abort the call in a build that compiles them in
MayPanic(t) == t.state.tag # "AwaitingDownload" \/ AttemptsOverflow(t)

block_already_downloadedCacheOnly == has_block(RequestedRoot)

\* lines 305-310
block_already_downloaded ==
    IF IsSome(unknown_parent_components)
    THEN IsSome(Unwrap(unknown_parent_components).downloaded_block)
    ELSE has_block(RequestedRoot)

request_block ==
    /\ Alive
    /\ IF block_already_downloaded
       THEN /\ lookup_ret' = Some(Ret("request_block", "block", Ok(None)))
            /\ UNCHANGED block_request_state
       ELSE \/ \E o \in RequestOutcomes(block_request_state) :
                 /\ block_request_state' = o.tracker
                 /\ lookup_ret' = Some(Ret("request_block", "block", o.ret))
            \/ /\ MayPanic(block_request_state)
               /\ lookup_ret' = Some(Ret("request_block", "block", Panicked))
               /\ UNCHANGED block_request_state
    /\ UNCHANGED <<blob_request_state, requested_ids, blob_download_queue,
                   unknown_parent_components, da_checker>>
    /\ UNCHANGED not_l

request_blobs ==
    /\ Alive
    /\ requested_ids' = MissingIds
    /\ IF MissingIds = <<>>
       THEN /\ lookup_ret' = Some(Ret("request_blobs", "blob", Ok(None)))
            /\ UNCHANGED blob_request_state
       ELSE \/ \E o \in RequestOutcomes(blob_request_state) :
                 /\ blob_request_state' = o.tracker
                 /\ lookup_ret' = Some(Ret("request_blobs", "blob", o.ret))
            \/ /\ MayPanic(blob_request_state)
               /\ lookup_ret' = Some(Ret("request_blobs", "blob", Panicked))
               /\ UNCHANGED blob_request_state
    /\ UNCHANGED <<block_request_state, blob_download_queue,
                   unknown_parent_components, da_checker>>
    /\ UNCHANGED not_l

VerifyError(kind) == [kind |-> kind, cannot_process |-> FALSE]

VerifyWhileProcessingSilent(t, block) == [tracker |-> t, ret |-> Ok(None)]

\* lines 235-246: a response while the block is being processed
VerifyWhileProcessing(t, block) ==
    IF IsSome(block)
    THEN [tracker |-> register_failure_downloading(t),
          ret |-> Err(VerifyError("ExtraBlocksReturned"))]
    ELSE [tracker |-> t, ret |-> Ok(None)]

\* lines 201-247, for one response: the tracker afterwards and the result
VerifyBlockOutcome(t, block) ==
    CASE t.state.tag = "AwaitingDownload" ->
            [tracker |-> register_failure_downloading(t),
             ret |-> Err(VerifyError("ExtraBlocksReturned"))]
      [] t.state.tag = "Downloading" ->
            IF IsSome(block)
            THEN IF get_block_root(Unwrap(block)) # RequestedRoot
                 THEN [tracker |-> register_failure_downloading(t),
                       ret |-> Err(VerifyError("RootMismatch"))]
                 ELSE [tracker |-> [t EXCEPT !.state = Processing(t.state.peer_id)],
                       ret |-> Ok(Some(<<get_block_root(Unwrap(block)), Unwrap(block)>>))]
            ELSE IF should_have_block(t.state.peer_id)
                 THEN [tracker |-> register_failure_downloading(t),
                       ret |-> Err(VerifyError("NoBlockReturned"))]
                 ELSE [tracker |-> [t EXCEPT !.state = AwaitingDownload],
                       ret |-> Err(VerifyError("BenignFailure"))]
      [] OTHER -> VerifyWhileProcessing(t, block)

BlockResponses == {None, Some(Block(RequestedRoot)), Some(Block(OtherRoot))}

verify_block ==
    /\ Alive
    /\ \E block \in BlockResponses :
         LET o == VerifyBlockOutcome(block_request_state, block)
         IN /\ block_request_state' = o.tracker
            /\ lookup_ret' = Some(RetOn("verify_block", "block", block, o.ret))
    /\ UNCHANGED <<blob_request_state, requested_ids, blob_download_queue,
                   unknown_parent_components, da_checker>>
    /\ UNCHANGED not_l

SeqContains(seq, x) == \E i \in DOMAIN seq : seq[i] = x

TakeQueueClone(queue) == [taken |-> queue, left |-> queue]

\* line 283: std::mem::replace(&mut self.blob_download_queue, <_>::default())
TakeQueue(queue) == [taken |-> queue, left |-> EmptyBlobList]

\* lines 254-299, for one response: tracker, requested_ids, queue and result
VerifyBlobOutcome(t, ids, queue, blob) ==
    CASE t.state.tag = "AwaitingDownload" ->
            [tracker |-> register_failure_downloading(t), ids |-> ids, queue |-> queue,
             ret |-> Err(VerifyError("ExtraBlobsReturned"))]
      [] t.state.tag = "Downloading" ->
            IF IsSome(blob)
            THEN LET received_id == BlobIdentifier(Unwrap(blob).block_root, Unwrap(blob).index)
                 IN IF ~SeqContains(ids, received_id)
                    THEN [tracker |-> register_failure_downloading(t), ids |-> ids,
                          queue |-> queue, ret |-> Err(VerifyError("UnrequestedBlobId"))]
                    ELSE [tracker |-> t,
                          ids |-> SelectSeq(ids, LAMBDA id : id # received_id),
                          queue |-> [queue EXCEPT ![Unwrap(blob).index] = blob],
                          ret |-> Ok(None)]
            ELSE [tracker |-> [t EXCEPT !.state = Processing(t.state.peer_id)],
                  ids |-> ids, queue |-> TakeQueue(queue).left,
                  ret |-> Ok(Some(<<RequestedRoot, TakeQueue(queue).taken>>))]
      [] OTHER ->
            IF IsSome(blob)
            THEN [tracker |-> register_failure_downloading(t), ids |-> ids, queue |-> queue,
                  ret |-> Err(VerifyError("ExtraBlobsReturned"))]
            ELSE [tracker |-> t, ids |-> ids, queue |-> queue, ret |-> Ok(None)]

BlobResponses ==
    {None} \cup {Some(BlobSidecar(RequestedRoot, i)) : i \in BlobIndices}
           \cup {Some(BlobSidecar(OtherRoot, 0))}

verify_blob ==
    /\ Alive
    /\ \E blob \in BlobResponses :
         LET o == VerifyBlobOutcome(blob_request_state, requested_ids,
                                    blob_download_queue, blob)
         IN /\ blob_request_state' = o.tracker
            /\ requested_ids' = o.ids
            /\ blob_download_queue' = o.queue
            /\ lookup_ret' = Some(RetOn("verify_blob", "blob", blob, o.ret))
    /\ UNCHANGED <<block_request_state, unknown_parent_components, da_checker>>
    /\ UNCHANGED not_l

Which == {"block", "blob"}
Unit == Ok(None)

\* the sync manager reports that processing the component failed
RegisterFailureProcessing(which) ==
    /\ Alive
    /\ SetTracker(which, register_failure_processing(TrackerOf(which)))
    /\ lookup_ret' = Some(Ret("register_failure_processing", which, Unit))
    /\ UNCHANGED <<requested_ids, blob_download_queue, unknown_parent_components, da_checker>>
    /\ UNCHANGED not_l

\* the sync manager reports that the download failed
RegisterFailureDownloading(which) ==
    /\ Alive
    /\ SetTracker(which, register_failure_downloading(TrackerOf(which)))
    /\ lookup_ret' = Some(Ret("register_failure_downloading", which, Unit))
    /\ UNCHANGED <<requested_ids, blob_download_queue, unknown_parent_components, da_checker>>
    /\ UNCHANGED not_l

\* lines 413-432, for one root and one peer
add_peer_if_useful_of(block_root, peer_source) ==
    /\ Alive
    /\ IF block_root # RequestedRoot
       THEN /\ lookup_ret' = Some(Ret("add_peer_if_useful", "both", Ok(Some(FALSE))))
            /\ UNCHANGED <<block_request_state, blob_request_state>>
       ELSE /\ lookup_ret' = Some(Ret("add_peer_if_useful", "both", Ok(Some(TRUE))))
            /\ IF peer_source.kind = "BlockAndBlobs"
               THEN /\ block_request_state' = add_peer(block_request_state, peer_source.id)
                    /\ blob_request_state' = add_peer(blob_request_state, peer_source.id)
               ELSE /\ block_request_state' =
                          add_potential_peer(block_request_state, peer_source.id)
                    /\ blob_request_state' =
                          add_potential_peer(blob_request_state, peer_source.id)
    /\ UNCHANGED <<requested_ids, blob_download_queue, unknown_parent_components, da_checker>>
    /\ UNCHANGED not_l

add_peer_if_useful ==
    \E block_root \in {RequestedRoot, OtherRoot}, peer_source \in PeerSources :
        add_peer_if_useful_of(block_root, peer_source)

CheckPeerDisconnected(which) ==
    /\ Alive
    /\ \E dc_peer_id \in Peers :
         LET r == check_peer_disconnected(TrackerOf(which), dc_peer_id)
         IN /\ SetTracker(which, r.tracker)
            /\ lookup_ret' = Some(RetOn("check_peer_disconnected", which, Some(dc_peer_id),
                                        IF r.ok THEN Unit ELSE Err(VerifyError("Disconnected"))))
    /\ UNCHANGED <<requested_ids, blob_download_queue, unknown_parent_components, da_checker>>
    /\ UNCHANGED not_l

RemovePeerIfUseless(which) ==
    /\ Alive
    /\ \E peer_id \in Peers :
         SetTracker(which, remove_peer_if_useless(TrackerOf(which), peer_id))
    /\ lookup_ret' = Some(Ret("remove_peer_if_useless", which, Unit))
    /\ UNCHANGED <<requested_ids, blob_download_queue, unknown_parent_components, da_checker>>
    /\ UNCHANGED not_l

add_unknown_parent_block ==
    /\ Alive
    /\ unknown_parent_components' =
         IF IsSome(unknown_parent_components)
         THEN Some([Unwrap(unknown_parent_components) EXCEPT
                        !.downloaded_block = Some(Block(RequestedRoot))])
         ELSE Some(UnknownParentComponents(Some(Block(RequestedRoot)), EmptyBlobList))
    /\ lookup_ret' = Some(Ret("add_unknown_parent_block", "both", Unit))
    /\ UNCHANGED <<block_request_state, blob_request_state, requested_ids,
                   blob_download_queue, da_checker>>
    /\ UNCHANGED not_l

\* UnknownParentComponents::add_unknown_parent_blobs
MergeBlobs(held, blobs) ==
    [i \in BlobIndices |-> IF IsSome(blobs[i]) THEN blobs[i] ELSE held[i]]

OutOfBandBlobLists ==
    {[i \in BlobIndices |-> IF i \in held THEN Some(BlobSidecar(RequestedRoot, i)) ELSE None] :
        held \in SUBSET BlobIndices}

add_unknown_parent_blobs ==
    /\ Alive
    /\ \E blobs \in OutOfBandBlobLists :
         unknown_parent_components' =
            IF IsSome(unknown_parent_components)
            THEN Some([Unwrap(unknown_parent_components) EXCEPT
                        !.downloaded_blobs = MergeBlobs(@, blobs)])
            ELSE Some(UnknownParentComponents(None, blobs))
    /\ lookup_ret' = Some(Ret("add_unknown_parent_blobs", "both", Unit))
    /\ UNCHANGED <<block_request_state, blob_request_state, requested_ids,
                   blob_download_queue, da_checker>>
    /\ UNCHANGED not_l

DownloadCompleteAlways(missing_ids) == TRUE

\* lines 154-155: download_complete
DownloadComplete(missing_ids) == missing_ids = <<>>

get_downloaded_block ==
    /\ Alive
    /\ IF IsSome(unknown_parent_components)
       THEN LET components == Unwrap(unknown_parent_components)
                missing_ids == get_missing_blob_ids(RequestedRoot, components.downloaded_block,
                                                    downloaded_indices(components))
            IN IF DownloadComplete(missing_ids) /\ IsSome(components.downloaded_block)
               THEN /\ lookup_ret' = Some(Ret("get_downloaded_block", "both",
                            Ok(Some([block |-> Unwrap(components.downloaded_block),
                                     blobs |-> components.downloaded_blobs]))))
                    /\ unknown_parent_components' =
                            Some([components EXCEPT !.downloaded_blobs = EmptyBlobList])
               ELSE /\ lookup_ret' = Some(Ret("get_downloaded_block", "both", Ok(None)))
                    /\ UNCHANGED unknown_parent_components
       ELSE /\ lookup_ret' = Some(Ret("get_downloaded_block", "both", Ok(None)))
            /\ UNCHANGED unknown_parent_components
    /\ UNCHANGED <<block_request_state, blob_request_state, requested_ids,
                   blob_download_queue, da_checker>>
    /\ UNCHANGED not_l

\* the availability checker learns the block or a blob from another source
DaCheckerPut ==
    /\ Alive
    /\ \/ /\ da_checker.block = None
          /\ da_checker' = [da_checker EXCEPT !.block = Some(Block(RequestedRoot))]
       \/ \E i \in BlobIndices \ da_checker.blobs :
            da_checker' = [da_checker EXCEPT !.blobs = @ \cup {i}]
    /\ UNCHANGED <<block_request_state, blob_request_state, requested_ids,
                   blob_download_queue, unknown_parent_components, lookup_ret>>
    /\ UNCHANGED not_l

---------------------------------------------------------------------------
(* blob_verification.rs: validate_blob_sidecar_for_gossip                   *)

NumGossip == 2              \* validations in flight at once

GossipTasks == 1..NumGossip

\* the chain the node sees: slots_per_epoch, the finalized checkpoint of the
\* head, the slot clock with its tolerance, the blocks fork choice can learn
Chain == [slots_per_epoch |-> 8, finalized_epoch |-> 1, latest_permissible_slot |-> 11]
KnownParent == 20
LateParent == 21
ParentRoots == {KnownParent, LateParent}
ForkChoiceBlock(root) == [root |-> root, slot |-> 9]

\* Epoch::start_slot
start_slot(epoch) == epoch * Chain.slots_per_epoch

\* the proposer the shuffling gives for a slot, whichever cache answers
ProposerAt(slot) == slot % 3

SignedBlobSidecar(index, slot, parent_root, proposer_index, signer) ==
    [block_root |-> 1, index |-> index, slot |-> slot, block_parent_root |-> parent_root,
     proposer_index |-> proposer_index, signer |-> signer]

\* sidecars of one block: its two blobs as proposed, one of them also on a
\* parent that fork choice learns late, and sidecars that break one rule and
\* every later one
GossipSidecars ==
    {SignedBlobSidecar(i, 10, KnownParent, ProposerAt(10), ProposerAt(10)) : i \in {0, 1}}
    \cup {SignedBlobSidecar(1, 10, LateParent, ProposerAt(10), ProposerAt(10))}
    \cup {SignedBlobSidecar(0, slot, LateParent, ProposerAt(slot) + 1, ProposerAt(slot) + 2) :
            slot \in {8, 10, 12}}
    \cup {SignedBlobSidecar(0, slot, KnownParent, ProposerAt(slot) + 1, ProposerAt(slot) + 2) :
            slot \in {9, 10}}
    \cup {SignedBlobSidecar(0, 10, KnownParent, ProposerAt(10), ProposerAt(10) + 1)}
Subnets == {0, 1}

Admitted(sidecar) == [tag |-> "Ok", blob |-> sidecar]
InvalidSubnet(expected, received) ==
    [tag |-> "InvalidSubnet", expected |-> expected, received |-> received]
FutureSlot(message_slot, latest_permissible_slot) ==
    [tag |-> "FutureSlot", message_slot |-> message_slot,
     latest_permissible_slot |-> latest_permissible_slot]
PastFinalizedSlot(blob_slot, the_finalized_slot) ==
    [tag |-> "PastFinalizedSlot", blob_slot |-> blob_slot, finalized_slot |-> the_finalized_slot]
RepeatBlob(proposer, slot, index) ==
    [tag |-> "RepeatBlob", proposer |-> proposer, slot |-> slot, index |-> index]
BlobParentUnknown(sidecar) == [tag |-> "BlobParentUnknown", blob |-> sidecar]
BlobIsNotLaterThanParent(blob_slot, parent_slot) ==
    [tag |-> "BlobIsNotLaterThanParent", blob_slot |-> blob_slot, parent_slot |-> parent_slot]
ProposerIndexMismatch(sidecar_index, local) ==
    [tag |-> "ProposerIndexMismatch", sidecar |-> sidecar_index, local |-> local]
UnknownValidator(index) == [tag |-> "UnknownValidator", index |-> index]
ProposerSignatureInvalid == [tag |-> "ProposerSignatureInvalid"]
UnableToReadSlot == [tag |-> "BeaconChainError", error |-> "UnableToReadSlot"]
Continue == [tag |-> "Continue"]

\* the key the observed set holds for a sidecar
ObservedKey(sidecar) == <<sidecar.block_root, sidecar.index>>

\* ObservedBlobSidecars::is_known
is_known(observed, sidecar) == ObservedKey(sidecar) \in observed

\* ObservedBlobSidecars::observe_sidecar: inserts, and tells whether it was there
observe_sidecar(observed, sidecar) ==
    [observed |-> observed \cup {ObservedKey(sidecar)},
     known |-> ObservedKey(sidecar) \in observed]

\* the head's finalized_checkpoint().epoch.start_slot(..)
latest_finalized_slot == start_slot(Chain.finalized_epoch)

IsFinalizedStrict(blob_slot) == blob_slot < latest_finalized_slot

\* line 218
IsFinalized(blob_slot) == blob_slot <= latest_finalized_slot

\* slot_clock.now_with_future_tolerance(..): None before genesis
ClockReadings == {None, Some(Chain.latest_permissible_slot)}

EarlyChecksFinalizedFirst(sidecar, subnet, now, observed) ==
    IF IsFinalized(sidecar.slot)
    THEN PastFinalizedSlot(sidecar.slot, latest_finalized_slot)
    ELSE IF sidecar.index # subnet
    THEN InvalidSubnet(sidecar.index, subnet)
    ELSE IF now = None
    THEN UnableToReadSlot
    ELSE IF sidecar.slot > Unwrap(now)
    THEN FutureSlot(sidecar.slot, Unwrap(now))
    ELSE IF is_known(observed, sidecar)
    THEN RepeatBlob(sidecar.proposer_index, sidecar.slot, sidecar.index)
    ELSE Continue

\* lines 193-238: subnet, future slot, finalized slot, first look at the
\* observed set (under its read lock)
EarlyChecks(sidecar, subnet, now, observed) ==
    IF sidecar.index # subnet
    THEN InvalidSubnet(sidecar.index, subnet)
    ELSE IF now = None
    THEN UnableToReadSlot
    ELSE IF sidecar.slot > Unwrap(now)
    THEN FutureSlot(sidecar.slot, Unwrap(now))
    ELSE IF IsFinalized(sidecar.slot)
    THEN PastFinalizedSlot(sidecar.slot, latest_finalized_slot)
    ELSE IF is_known(observed, sidecar)
    THEN RepeatBlob(sidecar.proposer_index, sidecar.slot, sidecar.index)
    ELSE Continue

\* fork_choice_read_lock().get_block(&block_parent_root)
get_block(known_blocks, root) ==
    IF root \in known_blocks THEN Some(ForkChoiceBlock(root)) ELSE None

\* lines 240-400: parent known, parent slot, proposer index, signature
LateChecks(sidecar, known_blocks, pubkey_known) ==
    LET parent_block == get_block(known_blocks, sidecar.block_parent_root)
        proposer_index == ProposerAt(sidecar.slot)
    IN IF parent_block = None
       THEN BlobParentUnknown(sidecar)
       ELSE IF Unwrap(parent_block).slot >= sidecar.slot
       THEN BlobIsNotLaterThanParent(sidecar.slot, Unwrap(parent_block).slot)
       ELSE IF proposer_index # sidecar.proposer_index
       THEN ProposerIndexMismatch(sidecar.proposer_index, proposer_index)
       ELSE IF ~pubkey_known
       THEN UnknownValidator(proposer_index)
       ELSE IF sidecar.signer # proposer_index
       THEN ProposerSignatureInvalid
       ELSE Continue

GossipCall(pc, sidecar, subnet, seen, parent_known) ==
    [pc |-> pc, sidecar |-> sidecar, subnet |-> subnet, seen |-> seen,
     parent_known |-> parent_known]

NoSidecar == SignedBlobSidecar(0, 0, 0, 0, 0)
GossipNotCalled == GossipCall("idle", NoSidecar, 0, FALSE, FALSE)

GossipIdle ==
    /\ observed_blob_sidecars = {}
    /\ fork_choice = {KnownParent}
    /\ gossip = [v \in GossipTasks |-> GossipNotCalled]
    /\ gossip_ret = [v \in GossipTasks |-> None]
    /\ admitted = <<>>

GossipFinish(v, call, result) ==
    /\ gossip' = [gossip EXCEPT ![v] = [call EXCEPT !.pc = "done"]]
    /\ gossip_ret' = [gossip_ret EXCEPT ![v] = Some(result)]

\* a validation starts: lines 185-238
ValidateEarly(v) ==
    /\ gossip[v].pc = "idle"
    /\ \E sidecar \in GossipSidecars, subnet \in Subnets, now \in ClockReadings :
         LET outcome == EarlyChecks(sidecar, subnet, now, observed_blob_sidecars)
             call == GossipCall("parent", sidecar, subnet,
                                is_known(observed_blob_sidecars, sidecar), FALSE)
         IN IF outcome = Continue
            THEN gossip' = [gossip EXCEPT ![v] = call] /\ UNCHANGED gossip_ret
            ELSE GossipFinish(v, call, outcome)
    /\ UNCHANGED <<observed_blob_sidecars, fork_choice, admitted>>
    /\ UNCHANGED not_g

\* a parent check that marks the sidecar as seen before it rejects it
ValidateLateMarking(v) ==
    /\ gossip[v].pc = "parent"
    /\ \E pubkey_known \in BOOLEAN :
         LET outcome == LateChecks(gossip[v].sidecar, fork_choice, pubkey_known)
             call == [gossip[v] EXCEPT
                        !.parent_known = gossip[v].sidecar.block_parent_root \in fork_choice]
         IN IF outcome = Continue
            THEN /\ gossip' = [gossip EXCEPT ![v] = [call EXCEPT !.pc = "observe"]]
                 /\ UNCHANGED <<gossip_ret, observed_blob_sidecars>>
            ELSE /\ GossipFinish(v, call, outcome)
                 /\ observed_blob_sidecars' =
                        observed_blob_sidecars \cup {ObservedKey(gossip[v].sidecar)}
    /\ UNCHANGED <<fork_choice, admitted>>
    /\ UNCHANGED not_g

\* lines 240-400
ValidateLate(v) ==
    /\ gossip[v].pc = "parent"
    /\ \E pubkey_known \in BOOLEAN :
         LET outcome == LateChecks(gossip[v].sidecar, fork_choice, pubkey_known)
             call == [gossip[v] EXCEPT
                        !.parent_known = gossip[v].sidecar.block_parent_root \in fork_choice]
         IN IF outcome = Continue
            THEN gossip' = [gossip EXCEPT ![v] = [call EXCEPT !.pc = "observe"]]
                 /\ UNCHANGED gossip_ret
            ELSE GossipFinish(v, call, outcome)
    /\ UNCHANGED <<observed_blob_sidecars, fork_choice, admitted>>
    /\ UNCHANGED not_g

SecondLookIgnored(known) == FALSE

\* lines 413-424: `if ... .observe_sidecar(..)? { return Err(RepeatBlob {..}) }`
SecondLookRejects(known) == known

\* lines 402-428: the second look, under the write lock
ValidateObserve(v) ==
    /\ gossip[v].pc = "observe"
    /\ LET sidecar == gossip[v].sidecar
           r == observe_sidecar(observed_blob_sidecars, sidecar)
       IN /\ observed_blob_sidecars' = r.observed
          /\ IF SecondLookRejects(r.known)
             THEN /\ GossipFinish(v, gossip[v],
                        RepeatBlob(ProposerAt(sidecar.slot), sidecar.slot, sidecar.index))
                  /\ UNCHANGED admitted
             ELSE /\ GossipFinish(v, gossip[v], Admitted(sidecar))
                  /\ admitted' = Append(admitted, ObservedKey(sidecar))
    /\ UNCHANGED fork_choice
    /\ UNCHANGED not_g

\* fork choice learns a block
ImportBlock ==
    /\ LateParent \notin fork_choice
    /\ fork_choice' = fork_choice \cup {LateParent}
    /\ UNCHANGED <<observed_blob_sidecars, gossip, gossip_ret, admitted>>
    /\ UNCHANGED not_g

---------------------------------------------------------------------------
(* Specifications *)

\* the block stream as the node runs it: one task per stream() call
Init == StreamInit /\ PackIdle /\ LookupIdle /\ GossipIdle
Next ==
    \/ Stream
    \/ StreamBlocksPrepare
    \/ StreamBlocksNext
    \/ EngineReturn(StreamTask)
    \/ StreamBlocksFallbackNext
    \/ SendErrorsNext
    \/ DropReceiver
Spec == Init /\ [][Next]_vars

\* a stream whose EngineRequest handles are cloned to other tasks, which call
\* get_block_result while the stream runs
SharedRoots == UNION {[1..n -> 1..5] : n \in 1..MaxSharedRoots}

SharedInit ==
    /\ block_roots \in SharedRoots
    /\ check_cache = FALSE
    /\ spc = "stream_blocks"
    /\ roots = <<>>
    /\ request_map = EmptyMap
    /\ heap = <<>>
    /\ no_request = EmptyMap
    /\ idx = 1
    /\ cur = [t \in Tasks |-> Idle]
    /\ sent = <<>>
    /\ rx_open = TRUE
    /\ lock = <<>>
    /\ engine_calls = <<>>
    /\ fetches = 0
    /\ aux = [t \in AuxTasks |-> 0]
    /\ returned = {}
    /\ with_bodies = <<>>
    /\ PackIdle /\ LookupIdle /\ GossipIdle

NextShared ==
    \/ StreamBlocksPrepare
    \/ StreamBlocksNext
    \/ \E t \in AuxTasks : AuxGetBlockResult(t)
    \/ \E t \in Tasks : WriteAcquired(t)
    \/ \E t \in Tasks : EngineReturn(t)
SpecShared == SharedInit /\ [][NextShared]_vars

\* get_requests packing unfinalized blinded blocks, one push at a time
InitPackHash == StreamIdle /\ PackHashInit /\ LookupIdle /\ GossipIdle
NextPackHash == PackByHash
SpecPackHash == InitPackHash /\ [][NextPackHash]_vars

\* get_requests packing finalized blinded blocks, one push at a time
InitPackRange == StreamIdle /\ PackRangeInit /\ LookupIdle /\ GossipIdle
NextPackRange == PackByRange
SpecPackRange == InitPackRange /\ [][NextPackRange]_vars

---------------------------------------------------------------------------
(* Properties of the block streamer *)

ReturnedFrom(c) == {e \in returned : e[2] = c}

\* C1: however many tasks call get_block_result on a shared batch, and however
\* often, the batch makes one engine call in total (never a second one, and one
\* once any caller has its result), and all callers asking for the same root
\* are given the same cached result.
C1_OneEngineCall ==
    /\ \A c \in DOMAIN engine_calls :
         /\ engine_calls[c] <= 1
         /\ ReturnedFrom(c) # {} => engine_calls[c] = 1
    /\ \A e1 \in returned, e2 \in returned :
         (e1[2] = e2[2] /\ e1[2] # 0 /\ e1[3] = e2[3]) => e1[4] = e2[4]

\* the stream task and another task both got the result of one root of one batch
C1_Witness ==
    \E e1 \in returned, e2 \in returned :
        /\ e1[1] = StreamTask /\ e2[1] # StreamTask
        /\ e1[2] = e2[2] /\ e1[2] # 0 /\ e1[3] = e2[3]
        /\ engine_calls[e1[2]] = 1

\* stream_blocks ran get_requests: the heap of batches exists
ViaStreamBlocks == heap # <<>>

\* C2: the i-th item stream_blocks sends carries the i-th requested root,
\* whatever the kinds of the requested blocks, with or without duplicates.
C2_RequestOrder ==
    ViaStreamBlocks =>
        /\ Len(sent) <= Len(block_roots)
        /\ \A i \in DOMAIN sent : sent[i].root = block_roots[i]

SlotOfRoot(root) == Unwrap(try_get_full_block(root).block).slot

\* the whole list was sent, and it asked for a finalized block before an older
\* finalized block (which the by-range batch holds in slot order) and for a
\* block fetched by hash
C2_Witness ==
    /\ ViaStreamBlocks
    /\ spc = "done"
    /\ Len(sent) = Len(block_roots)
    /\ \E i \in DOMAIN sent, j \in DOMAIN sent, k \in DOMAIN sent :
         /\ i < j
         /\ sent[i].root \in {4, 5} /\ sent[j].root \in {4, 5}
         /\ SlotOfRoot(sent[i].root) > SlotOfRoot(sent[j].root)
         /\ sent[k].root \in {1, 2, 3}

\* the header recomputed from the body delivered for an item
RecomputedHeader(parts) ==
    HeaderFromPayload(to_payload(Unwrap(parts.body), parts.header).payload)

BodyUsable(parts) ==
    IsSome(parts.body) /\ to_payload(Unwrap(parts.body), parts.header).ok

\* C3: the cached result of an item of an executed batch is a full block only
\* if the header recomputed from the delivered body equals the claimed header;
\* when they differ the result is InconsistentPayloadReconstructed with the
\* claimed and the reconstructed transactions roots.
C3_NoFalseReconstruction ==
    \A c \in DOMAIN heap :
        heap[c].state = "Sent" =>
            \A root \in DOMAIN with_bodies[c] :
                LET parts == with_bodies[c][root]
                    result == heap[c].results[root]
                IN /\ result.tag = "OkBlock" =>
                        BodyUsable(parts) /\ RecomputedHeader(parts) = parts.header
                   /\ (BodyUsable(parts) /\ RecomputedHeader(parts) # parts.header) =>
                        /\ result.tag = "Err"
                        /\ result.kind = "InconsistentPayloadReconstructed"
                        /\ result.canonical_transactions_root = parts.header.transactions_root
                        /\ result.reconstructed_transactions_root =
                                RecomputedHeader(parts).transactions_root

\* an executed batch was delivered a body whose transactions are not those of
\* the claimed header
C3_Witness ==
    \E c \in DOMAIN heap :
        /\ heap[c].state = "Sent"
        /\ \E root \in DOMAIN with_bodies[c] :
             /\ BodyUsable(with_bodies[c][root])
             /\ RecomputedHeader(with_bodies[c][root]) # with_bodies[c][root].header
             /\ heap[c].results[root].tag = "Err"

RangeCells == {c \in DOMAIN pack.cells : pack.cells[c].kind = "ByRange"}
NumbersOf(cell) == {cell.parts[i].header.number : i \in DOMAIN cell.parts}
Largest(set) == CHOOSE x \in set : \A y \in set : y <= x

\* the batch the last push was made on, and the pushed block number
PushedOn == Unwrap(pack_last).before.cells[Unwrap(pack_last).before.by_range.cell]
PushedNumber == Unwrap(pack_last).parts.header.number

\* C4: on an unsent by-range batch every accepted block number lies in
\* [start, start+31], count is (largest accepted number - start) + 1 and at
\* most 32, and an item below start or above start+31 is handed back as Err(item).
C4_RangeWindow ==
    /\ \A c \in RangeCells :
         LET cell == pack.cells[c]
         IN (cell.state = "UnSent" /\ cell.parts # <<>>) =>
              /\ \A n \in NumbersOf(cell) : cell.start <= n /\ n <= cell.start + 31
              /\ cell.count = (Largest(NumbersOf(cell)) - cell.start) + 1
              /\ cell.count <= 32
    /\ (IsSome(pack_last) /\ PushedOn.parts # <<>>
            /\ (PushedNumber < PushedOn.start \/ PushedNumber > PushedOn.start + 31)) =>
         /\ pack.ret = Some(Unwrap(pack_last).parts)
         /\ pack.cells[Unwrap(pack_last).before.by_range.cell] = PushedOn

\* a batch spans its whole window, and the last push, above the window of its
\* batch, was handed back
C4_Witness ==
    /\ IsSome(pack_last)
    /\ PushedOn.parts # <<>>
    /\ PushedNumber > PushedOn.start + 31
    /\ pack.ret = Some(Unwrap(pack_last).parts)
    /\ \E c \in RangeCells : pack.cells[c].count = 32

\* the last push was made on an unsent by-range batch that holds an item, with
\* a block number in the batch's window
PushedInWindow ==
    /\ IsSome(pack_last)
    /\ PushedOn.state = "UnSent"
    /\ PushedOn.parts # <<>>
    /\ PushedOn.start <= PushedNumber
    /\ PushedNumber <= PushedOn.start + 31

\* C33: BodiesByRange::push_block_parts accepts every item pushed to an unsent
\* batch whose block number lies in the batch's window [start, start+31], also
\* when count is already 32 and the number is covered by the range; only items
\* outside the window are handed back.
C33_WindowAccepted ==
    (IsSome(pack_last) /\ PushedOn.state = "UnSent" /\ PushedOn.parts # <<>>) =>
        (pack.ret = None <=> PushedInWindow)

\* C33 for the batches whose count has not reached 32
C33_BelowCapacity ==
    (IsSome(pack_last) /\ PushedOn.state = "UnSent" /\ PushedOn.parts # <<>>
        /\ PushedOn.count < BatchCapacity) =>
        (pack.ret = None <=> PushedInWindow)

HashCells == {c \in DOMAIN pack.cells : pack.cells[c].kind = "ByHash"}
RootsOf(cell) == {cell.parts[i].blinded_block.root : i \in DOMAIN cell.parts}

\* the by-hash batch the last push was made on, and the pushed root
HashPushedOn == Unwrap(pack_last).before.cells[Unwrap(pack_last).before.by_hash.cell]
PushedRoot == Unwrap(pack_last).parts.blinded_block.root
Refused33rd == IsSome(pack_last) /\ Len(HashPushedOn.parts) = 32

\* a 33rd push is refused with the item, and a new batch holds exactly it
C5_Overflow ==
    /\ \A c \in HashCells : Len(pack.cells[c].parts) <= 32
    /\ Refused33rd =>
         /\ pack.ret = Some(Unwrap(pack_last).parts)
         /\ pack.cells = Append(Unwrap(pack_last).before.cells,
                                BodiesByHash_new(Some(Unwrap(pack_last).parts)))
         /\ pack.cells[Len(pack.cells)].parts = <<Unwrap(pack_last).parts>>
         /\ pack.by_hash = Handle("ByHash", Len(pack.cells))

\* C5 as stated: a by-hash batch never holds more than 32 items, a 33rd push is
\* refused and returned, a new batch holds exactly that item, and the roots of
\* the first 32 items stay mapped to the original batch.
C5_AsStated ==
    /\ C5_Overflow
    /\ Refused33rd =>
         \A root \in RootsOf(HashPushedOn) :
            pack.requests[root] = Unwrap(pack_last).before.by_hash

\* C5 (amended): as stated, for the roots of the first 32 items other than the
\* root of the 33rd item; when the 33rd item repeats one of those roots, that
\* root is mapped to the new batch.
C5_Amended ==
    /\ C5_Overflow
    /\ Refused33rd =>
         /\ \A root \in RootsOf(HashPushedOn) \ {PushedRoot} :
                pack.requests[root] = Unwrap(pack_last).before.by_hash
         /\ pack.requests[PushedRoot] = pack.by_hash
         /\ pack.by_hash # Unwrap(pack_last).before.by_hash

\* a 33rd item with a root of its own was pushed on a batch of 32
C5_Witness ==
    /\ Refused33rd
    /\ PushedRoot \notin RootsOf(HashPushedOn)
    /\ Cardinality(RootsOf(HashPushedOn)) = 32
    /\ pack.ret = Some(Unwrap(pack_last).parts)

---------------------------------------------------------------------------
(* Properties of get_requests and of execute() on the stream's batches *)

\* the request kind the claim gives a load result
ClassOf(load) ==
    IF load.ok /\ IsSome(load.block) /\ Unwrap(load.block).variant = "Blinded"
               /\ IsSome(Unwrap(load.block).header)
    THEN IF Unwrap(load.block).slot > finalized_slot THEN "ByHash" ELSE "ByRange"
    ELSE "NoRequest"

\* the result recorded directly for a load result that needs no engine request
RecordedDirectly(root, load) ==
    IF ~load.ok THEN ErrStore(root)
    ELSE IF load.block = None THEN OkNone
    ELSE IF Unwrap(load.block).variant = "Full" THEN OkBlock(Unwrap(load.block))
    ELSE ErrLacksPayload(root)

\* batch c holds an item of this root, or the result of one
TrackedBy(c, root) ==
    \/ \E i \in DOMAIN heap[c].parts : heap[c].parts[i].blinded_block.root = root
    \/ root \in DOMAIN heap[c].results

\* C17: get_requests gives every loaded root exactly one request kind: a
\* header-only block past the finalized slot a ByHash batch, a header-only block
\* at or before the finalized slot a ByRange batch, and a full block, an absent
\* block, a storage error or a header-only block without an execution header a
\* directly recorded result and no engine request.
C17_Classified ==
    ViaStreamBlocks =>
        \A i \in DOMAIN block_roots :
            LET root == block_roots[i]
                load == LoadPayload(check_cache, root)
            IN /\ root \in DOMAIN request_map
               /\ request_map[root].kind = ClassOf(load)
               /\ \A c \in DOMAIN heap :
                    TrackedBy(c, root) => heap[c].kind = ClassOf(load)
               /\ IF ClassOf(load) = "NoRequest"
                  THEN /\ root \in DOMAIN no_request
                       /\ no_request[root] = RecordedDirectly(root, load)
                  ELSE /\ root \notin DOMAIN no_request
                       /\ heap[request_map[root].cell].kind = ClassOf(load)
                       /\ TrackedBy(request_map[root].cell, root)

\* one request list held a block of each kind, the by-range one at the
\* finalized slot itself
C17_Witness ==
    /\ ViaStreamBlocks
    /\ \E i \in DOMAIN block_roots, j \in DOMAIN block_roots, k \in DOMAIN block_roots :
         /\ request_map[block_roots[i]].kind = "ByHash"
         /\ request_map[block_roots[j]].kind = "ByRange"
         /\ SlotOfRoot(block_roots[j]) = finalized_slot
         /\ request_map[block_roots[k]].kind = "NoRequest"

\* the engine's answer when the call fails
FailedResponse == [ok |-> FALSE, bodies |-> <<>>]

\* the engine call of batch c was made and failed: execute() built no
\* with_bodies map
BatchFailed(c) ==
    heap[c].state = "Sent" /\ engine_calls[c] >= 1 /\ with_bodies[c] = EmptyMap

MappedTo(c) ==
    {root \in DOMAIN request_map :
        request_map[root].kind # "NoRequest" /\ request_map[root].cell = c}

\* C18: if the engine call of a batch fails, every root the batch tracks gets
\* the same failure result (BlocksByHashFailure or BlocksByRangeFailure) and the
\* batch becomes Sent; no later get_block_result on the batch makes another
\* engine call, and every caller is given that failure.
C18_BatchFailure ==
    /\ \A t \in Tasks :
         cur[t].phase = "engine_wait" =>
            LET cell == heap[cur[t].cell]
                failed == ExecuteFinish(cell, FailedResponse)
            IN /\ failed.state = "Sent"
               /\ ~NeedsExecute(failed)
               /\ \A i \in DOMAIN cell.parts :
                    CellResult(failed, cell.parts[i].blinded_block.root) =
                        Some(FailureOf(cell.kind))
               /\ \A root \in MappedTo(cur[t].cell) :
                    CellResult(failed, root) = Some(FailureOf(cell.kind))
    /\ \A c \in DOMAIN heap :
         BatchFailed(c) =>
            /\ engine_calls[c] = 1
            /\ \A root \in MappedTo(c) :
                 CellResult(heap[c], root) = Some(FailureOf(heap[c].kind))
            /\ \A e \in ReturnedFrom(c) : e[4] = FailureOf(heap[c].kind)

\* a batch of two roots whose engine call failed answered for both roots, one
\* of them to a task that made no engine call
C18_Witness ==
    \E c \in DOMAIN heap :
        /\ BatchFailed(c)
        /\ \E e1 \in ReturnedFrom(c), e2 \in ReturnedFrom(c) :
             /\ e1[3] # e2[3]
             /\ e1[1] # e2[1]
             /\ e1[4] = FailureOf(heap[c].kind)
             /\ e2[4] = FailureOf(heap[c].kind)

\* where the engine's response carries the body of the i-th item of a batch
ItemPosition(cell, i) ==
    IF cell.kind = "ByHash" THEN i ELSE cell.parts[i].header.number - cell.start + 1

\* bodies.into_iter().chain(std::iter::repeat(None)) at one position
BodyAt(response, pos) ==
    IF pos <= Len(response.bodies) THEN response.bodies[pos] ELSE None

DeliveredBody(cell, response, i) == BodyAt(response, ItemPosition(cell, i))

\* the engine answers one hash, or one block number, with one body
ConsistentResponse(cell, response) ==
    LET keys == RequestKeys(cell)
    IN \A p \in DOMAIN keys, q \in DOMAIN keys :
          keys[p] = keys[q] => BodyAt(response, p) = BodyAt(response, q)

OkResponses(cell) ==
    {response \in EngineResponses(RequestSize(cell)) :
        response.ok /\ ConsistentResponse(cell, response)}

\* the batches whose engine call is in flight
InFlight == {cur[t].cell : t \in {u \in Tasks : cur[u].phase = "engine_wait"}}

\* C19: when a successful engine response lacks the body of an item (a None
\* entry, or a response shorter than the request), that item's result is
\* BlockHashMissingFromExecutionLayer, and every item of the batch whose body
\* was delivered gets the result of reconstructing it from that body.
C19_MissingBody ==
    \A c \in InFlight :
        \A response \in OkResponses(heap[c]) :
            LET cell == heap[c]
                executed == ExecuteFinish(cell, response)
            IN /\ executed.state = "Sent"
               /\ \A i \in DOMAIN cell.parts :
                    LET parts == cell.parts[i]
                        body == DeliveredBody(cell, response, i)
                        result == CellResult(executed, parts.blinded_block.root)
                    IN IF body = None
                       THEN result = Some(ErrMissing(parts.header.block_hash))
                       ELSE result = Some(ReconstructOne([parts EXCEPT !.body = body]))

\* the task took the Err(e) arm of stream(): it is in send_errors, or an item
\* it sent carries the capabilities failure
OnErrorPath ==
    \/ spc = "send_errors"
    \/ \E i \in DOMAIN sent : sent[i].result = ErrCapabilities

\* C20: if the engine-capabilities query fails, stream takes the send_errors
\* path, loads nothing from storage, makes no payload-bodies call, and sends
\* for every requested root, in request order, the same capabilities failure
\* (to the end of the list while the receiver is held).
C20_CapabilitiesFailure ==
    /\ spc = "spawned" =>
         \A caps \in Capabilities : ~caps.ok => StreamPath(caps) = "send_errors"
    /\ OnErrorPath =>
         /\ fetches = 0
         /\ heap = <<>> /\ engine_calls = <<>>
         /\ returned = {}
         /\ Len(sent) <= Len(block_roots)
         /\ \A i \in DOMAIN sent :
              sent[i] = [root |-> block_roots[i], result |-> ErrCapabilities]
         /\ (spc = "done" /\ rx_open) => Len(sent) = Len(block_roots)

\* the failure was sent for each root of a list of stored blocks
C20_Witness ==
    /\ spc = "done" /\ rx_open
    /\ Len(block_roots) >= 2
    /\ Len(sent) = Len(block_roots)
    /\ \A i \in DOMAIN sent : sent[i].result = ErrCapabilities
    /\ \E i \in DOMAIN block_roots : IsSome(try_get_full_block(block_roots[i]).block)
    /\ fetches = 0

\* the task took stream_blocks_fallback: it is in its loop, or it ended without
\* stream_blocks having built a batch and without a capabilities failure sent
OnFallbackPath ==
    \/ spc = "stream_blocks_fallback"
    \/ spc = "done" /\ ~ViaStreamBlocks /\ ~OnErrorPath

\* the roots among the first n requested that the early attester cache lacks
Uncached(n) ==
    {i \in 1..Min(n, Len(block_roots)) : CachedBlock(check_cache, block_roots[i]) = None}

\* what the one-by-one fetch gives a root: the cached block, else what the
\* general block-retrieval path answers
OneByOne(root) ==
    IF IsSome(CachedBlock(check_cache, root))
    THEN {OkBlock(Unwrap(CachedBlock(check_cache, root)))}
    ELSE GetBlockOutcomes(root)

\* C21: stream_blocks is taken only when the engine advertises both
\* payload-bodies capabilities; with either missing the task takes
\* stream_blocks_fallback, builds no batch, makes no payload-bodies call, and
\* sends for each root in request order the cached block or else the answer of
\* the general retrieval path, one storage fetch per uncached root.
C21_Fallback ==
    /\ [](/\ spc = "spawned" =>
               \A caps \in Capabilities :
                  /\ StreamPath(caps) = "stream_blocks" =>
                        caps.ok /\ caps.by_hash /\ caps.by_range
                  /\ (caps.ok /\ ~(caps.by_hash /\ caps.by_range)) =>
                        StreamPath(caps) = "stream_blocks_fallback"
          /\ OnFallbackPath =>
               /\ heap = <<>> /\ engine_calls = <<>> /\ returned = {}
               /\ Len(sent) <= Len(block_roots)
               /\ \A i \in DOMAIN sent :
                    /\ sent[i].root = block_roots[i]
                    /\ sent[i].result \in OneByOne(block_roots[i])
               /\ Cardinality(Uncached(Len(sent))) <= fetches
               /\ fetches <= Cardinality(Uncached(Len(sent) + 1))
               /\ (spc = "done" /\ rx_open) =>
                    /\ Len(sent) = Len(block_roots)
                    /\ fetches = Cardinality(Uncached(Len(sent))))
    /\ [][spc = "stream_blocks_fallback" =>
            /\ spc' \in {"stream_blocks_fallback", "done"}
            /\ heap' = <<>> /\ engine_calls' = <<>>
            /\ Len(sent') <= Len(sent) + 1]_vars

\* the fallback sent a cached block and a block fetched through the general
\* path, in the order they were asked for
C21_Witness ==
    /\ spc = "done" /\ rx_open
    /\ ~ViaStreamBlocks
    /\ Len(sent) = Len(block_roots)
    /\ \E i \in DOMAIN sent, j \in DOMAIN sent :
         /\ i < j
         /\ IsSome(CachedBlock(check_cache, sent[i].root))
         /\ sent[i].result = OkBlock(Unwrap(CachedBlock(check_cache, sent[i].root)))
         /\ CachedBlock(check_cache, sent[j].root) = None
         /\ sent[j].result \in GetBlockOutcomes(sent[j].root)
    /\ fetches >= 1

\* the loops of the three paths, each ending its body with a send
SendLoops == {"for_roots", "stream_blocks_fallback", "send_errors"}

\* the step ends a loop body: the task is back between two calls
BodyEnds == spc \in SendLoops /\ cur'[StreamTask] = Idle

\* payload-bodies calls the engine received, over all batches
RECURSIVE SumCalls(_)
SumCalls(calls) == IF calls = <<>> THEN 0 ELSE Head(calls) + SumCalls(Tail(calls))

\* C22: once the consumer has dropped the receiving end, the send that ends the
\* current loop body fails: nothing is sent, the task leaves its loop at once,
\* and from then on it sends nothing, fetches no block and makes no engine
\* call; the task ends as it does after a complete stream, with no error item.
C22_Cancelled ==
    /\ [][(~rx_open /\ BodyEnds) => (sent' = sent /\ spc' = "done")]_vars
    /\ [][~rx_open => (sent' = sent /\ ~rx_open')]_vars
    /\ [][spc = "done" =>
            /\ spc' = "done"
            /\ sent' = sent
            /\ fetches' = fetches
            /\ SumCalls(engine_calls') = SumCalls(engine_calls)]_vars

\* the receiver was dropped after the first item: the task ended with the rest
\* unsent and a batch of the stream never sent to the engine
C22_Witness ==
    /\ spc = "done" /\ ~rx_open
    /\ Len(sent) >= 1
    /\ Len(sent) < Len(block_roots)
    /\ \E c \in DOMAIN heap :
         /\ heap[c].parts # <<>>
         /\ heap[c].state = "UnSent"
         /\ engine_calls[c] = 0

\* the items of a batch without the later copies of a root pushed before
RECURSIVE FirstCopies(_, _)
FirstCopies(parts_vec, seen) ==
    IF parts_vec = <<>> THEN <<>>
    ELSE LET root == Head(parts_vec).blinded_block.root
         IN IF root \in seen
            THEN FirstCopies(Tail(parts_vec), seen)
            ELSE <<Head(parts_vec)>> \o FirstCopies(Tail(parts_vec), seen \cup {root})

\* the roots pushed more than once into the batch
RepeatedRoots(cell) ==
    {cell.parts[i].blinded_block.root : i \in
        {k \in DOMAIN cell.parts :
            \E j \in DOMAIN cell.parts :
                j # k /\ cell.parts[j].blinded_block.root = cell.parts[k].blinded_block.root}}

\* C32: when a root is pushed several times into one batch, execution makes one
\* reconstruction for it, from the first pushed copy (the later copies change
\* nothing: the result is the one of the batch without them), the result map
\* holds that one entry for the root, and every occurrence of the root in the
\* request list is sent it.
C32_FirstCopyWins ==
    /\ \A c \in DOMAIN heap :
         LET cell == heap[c]
         IN (NeedsExecute(cell) /\ RepeatedRoots(cell) # {}) =>
              \A response \in {r \in EngineResponses(RequestSize(cell)) : r.ok} :
                 LET attached == ExecuteWithBodies(cell, response)
                     executed == ExecuteFinish(cell, response)
                     alone == ExecuteFinish([cell EXCEPT !.parts = FirstCopies(@, {})],
                                            response)
                 IN /\ DOMAIN executed.results = RootsOf(cell)
                    /\ \A root \in RepeatedRoots(cell) :
                         /\ CellResult(executed, root) = Some(ReconstructOne(attached[root]))
                         /\ CellResult(executed, root) = CellResult(alone, root)
    /\ \A i \in DOMAIN sent, j \in DOMAIN sent :
         sent[i].root = sent[j].root => sent[i].result = sent[j].result
    /\ \A i \in DOMAIN sent :
         LET handle == request_map[sent[i].root]
         IN (ViaStreamBlocks /\ handle.kind # "NoRequest") =>
              /\ heap[handle.cell].state = "Sent"
              /\ Some(sent[i].result) = CellResult(heap[handle.cell], sent[i].root)

\* a root asked for twice went twice into one by-hash batch, and both
\* occurrences were sent the block reconstructed for it
C32_Witness ==
    /\ spc = "done"
    /\ Len(sent) = Len(block_roots)
    /\ \E i \in DOMAIN sent, j \in DOMAIN sent :
         /\ i < j
         /\ sent[i].root = sent[j].root
         /\ request_map[sent[i].root].kind = "ByHash"
         /\ sent[i].result.tag = "OkBlock"

\* the response holds a body at a position of the request that asks for the
\* item's execution block hash (by hash) or block number (by range)
BodyInResponse(cell, response, parts) ==
    LET keys == RequestKeys(cell)
    IN \E p \in DOMAIN keys :
          keys[p] = PartsKey(cell.kind, parts) /\ BodyAt(response, p) # None

\* C36: for every item of an executed batch, if the engine's successful
\* response contains a body for the item's execution block hash or block
\* number, the item's result is not BlockHashMissingFromExecutionLayer, also
\* when two items with different roots share the hash or the number.
C36_BodyFound ==
    \A c \in InFlight :
        \A response \in OkResponses(heap[c]) :
            LET cell == heap[c]
                executed == ExecuteFinish(cell, response)
            IN \A i \in DOMAIN cell.parts :
                  BodyInResponse(cell, response, cell.parts[i]) =>
                     CellResult(executed, cell.parts[i].blinded_block.root)
                        # Some(ErrMissing(cell.parts[i].header.block_hash))

\* C36 for the batches in which no two roots share a hash or a number
C36_DistinctKeys ==
    \A c \in InFlight :
        \A response \in OkResponses(heap[c]) :
            LET cell == heap[c]
                executed == ExecuteFinish(cell, response)
                shared == \E i \in DOMAIN cell.parts, j \in DOMAIN cell.parts :
                             /\ cell.parts[i].blinded_block.root # cell.parts[j].blinded_block.root
                             /\ PartsKey(cell.kind, cell.parts[i]) = PartsKey(cell.kind, cell.parts[j])
            IN ~shared =>
                 \A i \in DOMAIN cell.parts :
                    BodyInResponse(cell, response, cell.parts[i]) =>
                       CellResult(executed, cell.parts[i].blinded_block.root)
                          # Some(ErrMissing(cell.parts[i].header.block_hash))

\* the stream with a consumer that keeps reading, a store and an engine that
\* answer every call, and a task that is scheduled as long as it can run
NextLive ==
    \/ Stream
    \/ StreamBlocksPrepare
    \/ StreamBlocksNext
    \/ EngineReturn(StreamTask)
    \/ StreamBlocksFallbackNext
    \/ SendErrorsNext
MaxLiveRoots == 3      \* longest request list of a stream followed to its end
LiveRoots == {1, 4, 7}
InitLive ==
    /\ Init
    /\ block_roots \in UNION {[1..n -> LiveRoots] : n \in 0..MaxLiveRoots}
\* weak fairness of the spawned task, step by step. StreamBlocksPrepare is
\* enabled exactly when spc = "stream_blocks" (its primed conjuncts only assign),
\* so WF_vars(StreamBlocksPrepare) is written out with that as its ENABLED.
TaskRuns ==
    /\ WF_vars(Stream)
    /\ \/ []<>(spc # "stream_blocks")
       \/ []<><<StreamBlocksPrepare>>_vars
    /\ WF_vars(StreamBlocksNext)
    /\ WF_vars(EngineReturn(StreamTask))
    /\ WF_vars(StreamBlocksFallbackNext)
    /\ WF_vars(SendErrorsNext)
SpecLive == InitLive /\ [][NextLive]_vars /\ TaskRuns

\* the task has ended, which drops the sender and closes the channel, having
\* sent one item for each entry of the request list, in order
StreamComplete ==
    /\ spc = "done"
    /\ Len(sent) = Len(block_roots)
    /\ \A i \in DOMAIN sent : sent[i].root = block_roots[i]

\* C39: if the consumer keeps reading and every storage and engine call
\* returns, stream eventually has sent one result per entry of the request
\* list, repeated roots included, and then ends, closing the channel; it never
\* sends more, and nothing after it has ended.
C39_Completes ==
    /\ <>[]StreamComplete
    /\ [](Len(sent) <= Len(block_roots))

\* a list that repeats a root was streamed to its end through batches
C39_Witness ==
    /\ StreamComplete
    /\ ViaStreamBlocks
    /\ rx_open
    /\ Len(block_roots) = MaxLiveRoots
    /\ \E i \in DOMAIN block_roots, j \in DOMAIN block_roots :
         i < j /\ block_roots[i] = block_roots[j]

\* the fallback and the capabilities failure were streamed to their ends
C39_WitnessFallback ==
    StreamComplete /\ OnFallbackPath /\ Len(block_roots) = MaxLiveRoots
C39_WitnessErrors ==
    StreamComplete /\ OnErrorPath /\ Len(block_roots) = MaxLiveRoots

\* stream_blocks on request lists that repeat roots and spread over more than
\* one by-range window, and get_requests packing a long list push by push
RequestRoots == {1, 2, 4, 5, 7, 10}

InitRequests ==
    /\ \/ /\ block_roots \in UNION {[1..n -> RequestRoots] : n \in 0..MaxRoots}
          /\ check_cache \in BOOLEAN
          /\ spc = "stream_blocks"
       \/ /\ block_roots = <<>>
          /\ check_cache = FALSE
          /\ spc = "none"
    /\ roots = <<>>
    /\ request_map = EmptyMap
    /\ heap = <<>>
    /\ no_request = EmptyMap
    /\ idx = 1
    /\ cur = [t \in Tasks |-> Idle]
    /\ sent = <<>>
    /\ rx_open = TRUE
    /\ lock = <<>>
    /\ engine_calls = <<>>
    /\ fetches = 0
    /\ aux = [t \in AuxTasks |-> 0]
    /\ returned = {}
    /\ with_bodies = <<>>
    /\ PackHashInit /\ LookupIdle /\ GossipIdle

NextRequests ==
    \/ StreamBlocksPrepare
    \/ StreamBlocksNext
    \/ EngineReturn(StreamTask)
    \/ spc = "none" /\ PackByHash
SpecRequests == InitRequests /\ [][NextRequests]_vars

\* the cell holds an item of the root
HoldsItem(cell, root) ==
    \E i \in DOMAIN cell.parts : cell.parts[i].blinded_block.root = root

\* the cell answers each of the roots once executed, whichever of the responses
\* the engine gives
AnswersAfter(cell, responses, mapped) ==
    IF cell.state = "Sent" THEN mapped \subseteq DOMAIN cell.results
    ELSE mapped # {} =>
            /\ \A root \in mapped : HoldsItem(cell, root)
            /\ NeedsExecute(cell)
            /\ \A response \in responses :
                  LET executed == ExecuteFinish(cell, response)
                  IN \A root \in mapped : IsSome(CellResult(executed, root))

\* responses to a request of n bodies: the failure, nothing, every body
SomeResponses(n) ==
    {FailedResponse, [ok |-> TRUE, bodies |-> <<>>],
     [ok |-> TRUE, bodies |-> [i \in 1..n |-> Some(Body(1))]]}

\* the roots get_requests has mapped to batch c while packing
PackedTo(c) ==
    {root \in DOMAIN pack.requests :
        pack.requests[root].kind # "NoRequest" /\ pack.requests[root].cell = c}

\* C23: stream_blocks never sends BlockNotFound: every requested root is in the
\* request map, and what it is mapped to (the no-request map, or a batch) holds
\* a result for it once executed, whatever the engine answers; also for roots
\* requested several times, and for items that overflow into a new batch.
C23_NeverNotFound ==
    /\ ViaStreamBlocks =>
         /\ roots = block_roots
         /\ \A i \in DOMAIN block_roots :
              /\ block_roots[i] \in DOMAIN request_map
              /\ request_map[block_roots[i]].kind = "NoRequest" =>
                    block_roots[i] \in DOMAIN no_request
         /\ \A c \in DOMAIN heap :
              AnswersAfter(heap[c], EngineResponses(RequestSize(heap[c])), MappedTo(c))
         /\ \A i \in DOMAIN sent : sent[i].result # ErrBlockNotFound
         /\ \A e \in returned : e[4] # ErrBlockNotFound
    /\ \A i \in DOMAIN pack.ordered_block_roots :
         pack.ordered_block_roots[i] \in DOMAIN pack.requests
    /\ \A c \in DOMAIN pack.cells :
         AnswersAfter(pack.cells[c], SomeResponses(RequestSize(pack.cells[c])), PackedTo(c))

\* a list that repeats a root and whose by-range items overflowed into a second
\* batch was streamed to its end
C23_Witness ==
    /\ spc = "done"
    /\ Len(sent) = Len(block_roots)
    /\ \E i \in DOMAIN block_roots, j \in DOMAIN block_roots : i < j /\ block_roots[i] = block_roots[j]
    /\ Cardinality({c \in DOMAIN heap : heap[c].kind = "ByRange" /\ heap[c].state = "Sent"}) >= 2

\* a 33rd item that repeats a root of the full by-hash batch was packed
C23_WitnessPacked ==
    /\ Refused33rd
    /\ PushedRoot \in RootsOf(HashPushedOn)
    /\ Len(pack.cells) >= 2

---------------------------------------------------------------------------
(* Specifications and properties of the single block lookup *)

BlockFailures ==
    block_request_state.failed_downloading + block_request_state.failed_processing
BlobFailures ==
    blob_request_state.failed_downloading + blob_request_state.failed_processing

\* the block side of a lookup under the operations of the sync manager, until
\* MaxFailures failures have been registered on the block tracker
InitLookup == StreamIdle /\ PackIdle /\ LookupInit /\ GossipIdle
NextLookupBlock ==
    \/ request_block
    \/ verify_block /\ BlockFailures' <= MaxFailures
    \/ RegisterFailureProcessing("block") /\ BlockFailures' <= MaxFailures
    \/ RegisterFailureDownloading("block") /\ BlockFailures' <= MaxFailures
    \/ add_peer_if_useful
    \/ CheckPeerDisconnected("block") /\ BlockFailures' <= MaxFailures
    \/ RemovePeerIfUseless("block")
    \/ add_unknown_parent_block
    \/ DaCheckerPut
SpecLookupBlock == InitLookup /\ [][NextLookupBlock]_vars

\* the blob side of a lookup, until MaxFailures failures have been registered
\* on the blob tracker
NextLookupBlobs ==
    \/ request_blobs
    \/ verify_blob /\ BlobFailures' <= MaxFailures
    \/ RegisterFailureProcessing("blob") /\ BlobFailures' <= MaxFailures
    \/ RegisterFailureDownloading("blob") /\ BlobFailures' <= MaxFailures
    \/ CheckPeerDisconnected("blob") /\ BlobFailures' <= MaxFailures
    \/ RemovePeerIfUseless("blob")
    \/ add_unknown_parent_block
    \/ add_unknown_parent_blobs
    \/ get_downloaded_block
    \/ DaCheckerPut
SpecLookupBlobs == InitLookup /\ [][NextLookupBlobs]_vars

\* the block tracker of a lookup over the whole range of its u8 counters: the
\* peers are those of the lookup's creation, and processing fails at most
\* MaxFailedProcessing times
InitLookupU8 ==
    /\ StreamIdle /\ PackIdle /\ LookupInit /\ GossipIdle
    /\ unknown_parent_components = None
NextLookupU8 ==
    \/ request_block
    \/ verify_block
    \/ RegisterFailureDownloading("block")
    \/ /\ RegisterFailureProcessing("block")
       /\ block_request_state'.failed_processing <= MaxFailedProcessing
SpecLookupU8 == InitLookupU8 /\ [][NextLookupU8]_vars

\* requests for blobs and the responses to them, until MaxFailures failures
\* have been registered on the blob tracker
NextLookupResponses ==
    \/ request_blobs
    \/ verify_blob /\ BlobFailures' <= MaxFailures
    \/ RegisterFailureProcessing("blob") /\ BlobFailures' <= MaxFailures
SpecLookupResponses == InitLookupU8 /\ [][NextLookupResponses]_vars

\* the blob tracker of a lookup over the whole range of its u8 counters
NextLookupBlobsU8 ==
    \/ request_blobs
    \/ verify_blob
    \/ RegisterFailureDownloading("blob")
    \/ /\ RegisterFailureProcessing("blob")
       /\ blob_request_state'.failed_processing <= MaxFailedProcessing
SpecLookupBlobsU8 == InitLookupU8 /\ [][NextLookupBlobsU8]_vars

MaxDisconnects == 1         \* downloads a disconnecting peer may fail

AllBlobs == [i \in BlobIndices |-> Some(BlobSidecar(RequestedRoot, i))]

\* SingleBlockLookup::new for a parent lookup one of whose components arrived
\* out of band: either the block, so that only blobs are requested, or all the
\* blobs, so that only the block is
InitLookupPeers ==
    /\ StreamIdle /\ PackIdle /\ GossipIdle
    /\ \E peer_source \in PeerSources :
         /\ block_request_state = SingleLookupRequestState_new(peer_source)
         /\ blob_request_state = SingleLookupRequestState_new(peer_source)
    /\ requested_ids = <<>>
    /\ blob_download_queue = EmptyBlobList
    /\ unknown_parent_components \in
         {Some(UnknownParentComponents(Some(Block(RequestedRoot)), EmptyBlobList)),
          Some(UnknownParentComponents(None, AllBlobs))}
    /\ da_checker = [block |-> None, blobs |-> {}]
    /\ lookup_ret = None

\* both trackers of a lookup while peers come and go, until MaxDisconnects
\* downloads have failed because their peer disconnected
NextLookupPeers ==
    \/ request_block
    \/ request_blobs
    \/ add_peer_if_useful
    \/ \E which \in Which :
         CheckPeerDisconnected(which) /\ BlockFailures' + BlobFailures' <= MaxDisconnects
SpecLookupPeers == InitLookupPeers /\ [][NextLookupPeers]_vars

Trackers == {block_request_state, blob_request_state}

\* C7: failed_attempts() is the exact sum failed_downloading + failed_processing
\* in every reachable tracker state: the u8 addition never overflows.
C7_ExactSum ==
    \A t \in Trackers :
        /\ ~AttemptsOverflow(t)
        /\ failed_attempts(t) = FailedAttemptsExact(t)

LastCall(op) == IsSome(lookup_ret) /\ Unwrap(lookup_ret).op = op

\* what the claim requires of a request made on tracker t
RefusedForAttempts(t) ==
    /\ Unwrap(lookup_ret).ret.tag = "Err"
    /\ Unwrap(lookup_ret).ret.value.kind = "TooManyAttempts"
    /\ t.state = AwaitingDownload

\* C6: whenever failed_downloading + failed_processing of a tracker has reached
\* MAX_ATTEMPTS, request_block (resp. request_blobs) returns TooManyAttempts,
\* selects no peer and leaves the tracker in AwaitingDownload.
C6_Exhausted ==
    /\ (LastCall("request_block")
            /\ FailedAttemptsExact(block_request_state) >= MAX_ATTEMPTS) =>
         RefusedForAttempts(block_request_state)
    /\ (LastCall("request_blobs")
            /\ FailedAttemptsExact(blob_request_state) >= MAX_ATTEMPTS) =>
         RefusedForAttempts(blob_request_state)

\* the call a step makes (every operation records itself in lookup_ret), and
\* the response it was handed
CallMade == Unwrap(lookup_ret')
Calls(op) == IF lookup_ret' = None THEN FALSE ELSE CallMade.op = op
Returned(ret) == Unwrap(lookup_ret').ret = ret
SameCounters(t, t2) ==
    /\ t2.failed_downloading = t.failed_downloading
    /\ t2.failed_processing = t.failed_processing
DownloadFailureCounted(t, t2) ==
    /\ t2.failed_downloading = t.failed_downloading + 1
    /\ t2.failed_processing = t.failed_processing

\* C11: when verify_blob receives the stream terminator while the blob tracker
\* is Downloading, the tracker moves to Processing with the same peer, the call
\* returns the requested root with exactly the blobs held in the download
\* queue, and the queue is empty afterwards.
C11_Terminator ==
    [][(Calls("verify_blob") /\ blob_request_state.state.tag = "Downloading"
                            /\ CallMade.arg = None) =>
        /\ blob_request_state'.state = Processing(blob_request_state.state.peer_id)
        /\ Returned(Ok(Some(<<RequestedRoot, blob_download_queue>>)))
        /\ blob_download_queue' = EmptyBlobList]_vars

\* the terminator arrived after a blob had been accepted
C11_Witness ==
    /\ LastCall("verify_blob")
    /\ Unwrap(lookup_ret).arg = None
    /\ Unwrap(lookup_ret).ret.tag = "Ok"
    /\ Unwrap(lookup_ret).ret.value # None
    /\ Unwrap(Unwrap(lookup_ret).ret.value)[2] # EmptyBlobList
    /\ blob_request_state.state.tag = "Processing"
    /\ blob_download_queue = EmptyBlobList

\* C12: while the block tracker is Downloading, verify_block on a delivered
\* block moves the tracker to Processing with the same peer and returns the
\* block exactly when the block hashes to the requested root; on a mismatch it
\* returns RootMismatch, adds one to failed_downloading, leaves
\* failed_processing alone and resets the tracker to AwaitingDownload.
C12_RootChecked ==
    [][(Calls("verify_block") /\ block_request_state.state.tag = "Downloading"
                              /\ IsSome(CallMade.arg)) =>
        LET t == block_request_state
            t2 == block_request_state'
            block == Unwrap(CallMade.arg)
        IN IF get_block_root(block) = RequestedRoot
           THEN /\ t2.state = Processing(t.state.peer_id)
                /\ Returned(Ok(Some(<<RequestedRoot, block>>)))
                /\ SameCounters(t, t2)
           ELSE /\ Returned(Err(VerifyError("RootMismatch")))
                /\ DownloadFailureCounted(t, t2)
                /\ t2.state = AwaitingDownload]_vars

\* C13: while the block tracker is Downloading, an empty response from a peer
\* expected to have the block returns NoBlockReturned and adds one to
\* failed_downloading; an empty response from an unconfirmed peer returns
\* BenignFailure, resets the tracker to AwaitingDownload and changes neither
\* failure counter.
C13_EmptyResponse ==
    [][(Calls("verify_block") /\ block_request_state.state.tag = "Downloading"
                              /\ CallMade.arg = None) =>
        LET t == block_request_state
            t2 == block_request_state'
        IN IF should_have_block(t.state.peer_id)
           THEN /\ Returned(Err(VerifyError("NoBlockReturned")))
                /\ DownloadFailureCounted(t, t2)
           ELSE /\ Returned(Err(VerifyError("BenignFailure")))
                /\ t2.state = AwaitingDownload
                /\ SameCounters(t, t2)]_vars

\* C15: while the blob tracker is Downloading, a delivered blob whose identifier
\* is still outstanding is stored in the queue at its index, its identifier
\* leaves requested_ids and the tracker stays Downloading; any other blob, a
\* second delivery of an accepted identifier included, returns
\* UnrequestedBlobId, adds one to failed_downloading and resets the tracker to
\* AwaitingDownload.
C15_OnlyRequested ==
    [][(Calls("verify_blob") /\ blob_request_state.state.tag = "Downloading"
                            /\ IsSome(CallMade.arg)) =>
        LET t == blob_request_state
            t2 == blob_request_state'
            blob == Unwrap(CallMade.arg)
            received_id == BlobIdentifier(blob.block_root, blob.index)
        IN IF SeqContains(requested_ids, received_id)
           THEN /\ blob_download_queue'[blob.index] = Some(blob)
                /\ ~SeqContains(requested_ids', received_id)
                /\ t2.state = t.state
                /\ Returned(Ok(None))
           ELSE /\ Returned(Err(VerifyError("UnrequestedBlobId")))
                /\ DownloadFailureCounted(t, t2)
                /\ t2.state = AwaitingDownload
                /\ blob_download_queue' = blob_download_queue]_vars

HandsOn(ret) == ret.tag = "Ok" /\ ret.value # None

\* the request on tracker t that ended with tracker t2 picked a peer as the
\* claim says, or found none
PeerPicked(t, t2) ==
    IF t.available_peers # {}
    THEN \E p \in t.available_peers :
            /\ Returned(Ok(Some(p)))
            /\ t2.state = Downloading(BlockAndBlobs(p))
            /\ p \in t2.used_peers
    ELSE IF t.potential_peers # {}
    THEN \E p \in t.potential_peers :
            /\ Returned(Ok(Some(p)))
            /\ t2.state = Downloading(Neither(p))
            /\ p \in t2.used_peers
    ELSE /\ Returned(Err(NoPeers))
         /\ t2 = t

\* the request was admitted: it returned, and the tracker had failed fewer than
\* MAX_ATTEMPTS times
Admissible(t) ==
    /\ CallMade.ret.tag # "Panic"
    /\ FailedAttemptsExact(t) < MAX_ATTEMPTS

\* C16: an admitted request_block or request_blobs (item still needed, fewer
\* than MAX_ATTEMPTS failures) picks a member of available_peers when that set
\* is non-empty, otherwise a member of potential_peers, and returns NoPeers
\* exactly when both sets are empty; after a pick the tracker is Downloading
\* with the chosen peer and the peer is in used_peers.
C16_PeerChoice ==
    /\ [][(Calls("request_block") /\ ~block_already_downloaded
                                  /\ Admissible(block_request_state)) =>
            PeerPicked(block_request_state, block_request_state')]_vars
    /\ [][(Calls("request_blobs") /\ MissingIds # <<>>
                                  /\ Admissible(blob_request_state)) =>
            PeerPicked(blob_request_state, blob_request_state')]_vars

\* blobs were requested from an available peer while a potential peer was known
C16_Witness ==
    /\ LastCall("request_blobs")
    /\ blob_request_state.potential_peers # {}
    /\ blob_request_state.state.tag = "Downloading"
    /\ blob_request_state.state.peer_id.kind = "BlockAndBlobs"
    /\ blob_request_state.state.peer_id.id \in blob_request_state.available_peers
    /\ blob_request_state.state.peer_id.id \notin blob_request_state.potential_peers
    /\ Unwrap(lookup_ret).ret = Ok(Some(blob_request_state.state.peer_id.id))

\* C14: in Processing or AwaitingDownload, verify_block on a non-empty response
\* returns ExtraBlocksReturned and hands no block on for processing.
C14_ExtraBlocks ==
    [][(Calls("verify_block")
            /\ block_request_state.state.tag \in {"Processing", "AwaitingDownload"}
            /\ IsSome(CallMade.arg)) =>
        /\ Returned(Err(VerifyError("ExtraBlocksReturned")))
        /\ ~HandsOn(CallMade.ret)]_vars

\* a block arrived after the requested block had been handed on for processing
C14_Witness ==
    /\ LastCall("verify_block")
    /\ IsSome(Unwrap(lookup_ret).arg)
    /\ Unwrap(lookup_ret).ret = Err(VerifyError("ExtraBlocksReturned"))
    /\ block_request_state.state = AwaitingDownload
    /\ block_request_state.used_peers # {}

\* what the availability checker may hold when a lookup is created
DaCheckerContents ==
    {[block |-> b, blobs |-> held] :
        b \in {None, Some(Block(RequestedRoot))}, held \in SUBSET BlobIndices}

\* a lookup, of a parent or not, created while the availability checker holds
\* any part of the components
InitLookupParent ==
    /\ StreamIdle /\ PackIdle /\ GossipIdle
    /\ \E peer_source \in PeerSources :
         /\ block_request_state = SingleLookupRequestState_new(peer_source)
         /\ blob_request_state = SingleLookupRequestState_new(peer_source)
    /\ requested_ids = <<>>
    /\ blob_download_queue = EmptyBlobList
    /\ unknown_parent_components \in
         {None, Some(UnknownParentComponents(None, EmptyBlobList))}
    /\ da_checker \in DaCheckerContents
    /\ lookup_ret = None

\* requests on a lookup while its components arrive out of band
NextLookupParent ==
    \/ request_block
    \/ request_blobs
    \/ add_unknown_parent_block
    \/ add_unknown_parent_blobs
    \/ get_downloaded_block
SpecLookupParent == InitLookupParent /\ [][NextLookupParent]_vars

\* the blob indices the held block commits to and the lookup does not hold
NotHeld(components) ==
    (IF IsSome(components.downloaded_block)
     THEN Unwrap(components.downloaded_block).commitments
     ELSE BlobIndices)
    \ {i \in BlobIndices : IsSome(components.downloaded_blobs[i])}

C24_WitnessHeldBack ==
    /\ LastCall("get_downloaded_block")
    /\ Unwrap(lookup_ret).ret = Ok(None)
    /\ IsSome(unknown_parent_components)
    /\ IsSome(Unwrap(unknown_parent_components).downloaded_block)
    /\ NotHeld(Unwrap(unknown_parent_components)) # {}

\* the block is held: out of band, or, with no out-of-band components, by the
\* availability cache
BlockHeld ==
    IF IsSome(unknown_parent_components)
    THEN IsSome(Unwrap(unknown_parent_components).downloaded_block)
    ELSE IsSome(da_checker.block)

\* the blob indices still missing: against the out-of-band components when
\* there are any, else against the availability cache
StillMissing ==
    IF IsSome(unknown_parent_components)
    THEN NotHeld(Unwrap(unknown_parent_components))
    ELSE (IF IsSome(da_checker.block) THEN Unwrap(da_checker.block).commitments
          ELSE BlobIndices) \ da_checker.blobs

\* C25: request_block returns Ok(None) and leaves the block tracker as it is
\* whenever the block is already held; request_blobs first sets requested_ids
\* to the identifiers still missing, and returns Ok(None) leaving the blob
\* tracker as it is whenever none is missing.
C25_SkipWhenHeld ==
    /\ [][(Calls("request_block") /\ BlockHeld) =>
            /\ Returned(Ok(None))
            /\ block_request_state' = block_request_state
            /\ blob_request_state' = blob_request_state]_vars
    /\ [][Calls("request_blobs") =>
            /\ {requested_ids'[i] : i \in DOMAIN requested_ids'} =
                    {BlobIdentifier(RequestedRoot, i) : i \in StillMissing}
            /\ Len(requested_ids') = Cardinality(StillMissing)
            /\ StillMissing = {} =>
                    /\ Returned(Ok(None))
                    /\ blob_request_state' = blob_request_state
                    /\ block_request_state' = block_request_state]_vars

\* the block arrived out of band while it was being downloaded, and the next
\* request_block skipped the request and left the tracker Downloading
C25_Witness ==
    /\ LastCall("request_block")
    /\ Unwrap(lookup_ret).ret = Ok(None)
    /\ BlockHeld
    /\ block_request_state.state.tag = "Downloading"
    /\ block_request_state.used_peers # {}

\* the blobs arrived out of band while they were being downloaded, and the
\* next request_blobs found none missing
C25_WitnessBlobs ==
    /\ LastCall("request_blobs")
    /\ Unwrap(lookup_ret).ret = Ok(None)
    /\ requested_ids = <<>>
    /\ blob_request_state.state.tag = "Downloading"

\* the tracker a call is about, before and after the step
CalledOn == IF CallMade.which = "block" THEN block_request_state ELSE blob_request_state
CalledOnAfter == IF CallMade.which = "block" THEN block_request_state' ELSE blob_request_state'

SamePeers(t, t2) ==
    /\ t2.available_peers = t.available_peers
    /\ t2.potential_peers = t.potential_peers
    /\ t2.used_peers = t.used_peers

\* neither counter of either tracker decreases in any step
CountersNeverDecrease ==
    [][/\ block_request_state'.failed_downloading >= block_request_state.failed_downloading
       /\ block_request_state'.failed_processing >= block_request_state.failed_processing
       /\ blob_request_state'.failed_downloading >= blob_request_state.failed_downloading
       /\ blob_request_state'.failed_processing >= blob_request_state.failed_processing]_vars

\* C26 as stated: the counters never decrease, and every call of
\* register_failure_downloading or register_failure_processing adds one to its
\* own counter, leaves the other counter alone and leaves the tracker in
\* AwaitingDownload.
C26_AsStated ==
    /\ CountersNeverDecrease
    /\ [][Calls("register_failure_downloading") =>
            /\ CalledOnAfter.failed_downloading = CalledOn.failed_downloading + 1
            /\ CalledOnAfter.failed_processing = CalledOn.failed_processing
            /\ CalledOnAfter.state = AwaitingDownload]_vars
    /\ [][Calls("register_failure_processing") =>
            /\ CalledOnAfter.failed_processing = CalledOn.failed_processing + 1
            /\ CalledOnAfter.failed_downloading = CalledOn.failed_downloading
            /\ CalledOnAfter.state = AwaitingDownload]_vars

\* C26 (amended): the counters never decrease, and every call of
\* register_failure_downloading or register_failure_processing adds one to its
\* own counter unless the counter is at 255, where it stays; the call leaves the
\* other counter and the peer sets alone and the tracker in AwaitingDownload.
C26_Amended ==
    /\ CountersNeverDecrease
    /\ [][Calls("register_failure_downloading") =>
            /\ CalledOnAfter.failed_downloading = Min(CalledOn.failed_downloading + 1, 255)
            /\ CalledOnAfter.failed_processing = CalledOn.failed_processing
            /\ CalledOnAfter.state = AwaitingDownload
            /\ SamePeers(CalledOn, CalledOnAfter)]_vars
    /\ [][Calls("register_failure_processing") =>
            /\ CalledOnAfter.failed_processing = Min(CalledOn.failed_processing + 1, 255)
            /\ CalledOnAfter.failed_downloading = CalledOn.failed_downloading
            /\ CalledOnAfter.state = AwaitingDownload
            /\ SamePeers(CalledOn, CalledOnAfter)]_vars

\* a download failure was registered on a tracker whose download counter is
\* at 255, after a processing failure
C26_Witness ==
    /\ LastCall("register_failure_downloading")
    /\ block_request_state.failed_downloading = 255
    /\ block_request_state.failed_processing >= 1
    /\ block_request_state.state = AwaitingDownload

MaxEachKind == 2            \* failures of each kind registered on a tracker

\* requests on a lookup none of whose components is held, while failures of
\* both kinds are registered on either tracker
NextLookupAttempts ==
    \/ request_block
    \/ request_blobs
    \/ \E which \in Which :
         /\ RegisterFailureDownloading(which)
         /\ TrackerOf(which).failed_downloading < MaxEachKind
         /\ BlockFailures' + BlobFailures' <= 2 * MaxEachKind
    \/ \E which \in Which :
         /\ RegisterFailureProcessing(which)
         /\ TrackerOf(which).failed_processing < MaxEachKind
         /\ BlockFailures' + BlobFailures' <= 2 * MaxEachKind
SpecLookupAttempts == InitLookupU8 /\ [][NextLookupAttempts]_vars

RefusedTooManyAttempts ==
    /\ CallMade.ret.tag = "Err"
    /\ CallMade.ret.value.kind = "TooManyAttempts"

\* the flag of the refusal against the counters of tracker t
FlagTellsKind(t) ==
    LET cannot_process == CallMade.ret.value.cannot_process
    IN /\ t.failed_processing > t.failed_downloading => cannot_process
       /\ t.failed_downloading > t.failed_processing => ~cannot_process
       /\ t.failed_processing = t.failed_downloading => cannot_process

\* C27: when request_block or request_blobs returns TooManyAttempts,
\* cannot_process is true if the tracker's processing failures outnumber its
\* download failures, false if the download failures outnumber the processing
\* failures, and true on a tie.
C27_CannotProcess ==
    /\ [][(Calls("request_block") /\ RefusedTooManyAttempts) =>
            FlagTellsKind(block_request_state)]_vars
    /\ [][(Calls("request_blobs") /\ RefusedTooManyAttempts) =>
            FlagTellsKind(blob_request_state)]_vars

\* a request was refused on a tie of two failures of each kind
C27_Witness ==
    /\ LastCall("request_block")
    /\ Unwrap(lookup_ret).ret = Err(TooManyAttempts(TRUE))
    /\ block_request_state.failed_processing = 2
    /\ block_request_state.failed_downloading = 2

\* blobs were refused for download failures
C27_WitnessDownload ==
    /\ LastCall("request_blobs")
    /\ Unwrap(lookup_ret).ret = Err(TooManyAttempts(FALSE))
    /\ blob_request_state.failed_downloading > blob_request_state.failed_processing

\* the block tracker over the whole range of its u8 counters while peers
\* disconnect
NextLookupDisconnectU8 ==
    \/ NextLookupU8
    \/ CheckPeerDisconnected("block")
SpecLookupDisconnectU8 == InitLookupU8 /\ [][NextLookupDisconnectU8]_vars

\* C28: check_peer_disconnected removes the peer from available_peers and from
\* potential_peers; exactly when the tracker is Downloading from that peer it
\* adds one to failed_downloading, resets the tracker to AwaitingDownload and
\* returns Err; otherwise, also when the tracker is Processing a response of
\* that peer, it leaves state and counters unchanged and returns Ok.
C28_Disconnect ==
    [][Calls("check_peer_disconnected") =>
        LET t == CalledOn
            t2 == CalledOnAfter
            dc_peer_id == Unwrap(CallMade.arg)
        IN /\ t2.available_peers = t.available_peers \ {dc_peer_id}
           /\ t2.potential_peers = t.potential_peers \ {dc_peer_id}
           /\ t2.used_peers = t.used_peers
           /\ IF t.state.tag = "Downloading" /\ t.state.peer_id.id = dc_peer_id
              THEN /\ DownloadFailureCounted(t, t2)
                   /\ t2.state = AwaitingDownload
                   /\ CallMade.ret.tag = "Err"
              ELSE /\ t2.state = t.state
                   /\ SameCounters(t, t2)
                   /\ Returned(Unit)]_vars

\* The peer is a candidate of tracker t2, which was t before a call of
\* add_peer_if_useful with peer_source.
CandidateAfter(t, t2, peer_source) ==
    /\ IF peer_source.kind = "BlockAndBlobs"
       THEN /\ peer_source.id \in t2.available_peers
            /\ peer_source.id \notin t2.potential_peers
       ELSE peer_source.id \notin t.available_peers
                => peer_source.id \in t2.potential_peers
    /\ peer_source.id \in t2.available_peers \cup t2.potential_peers

\* C29: after add_peer_if_useful returns true for a peer, the peer is a
\* candidate of both trackers: a confirmed peer is in available_peers and not
\* in potential_peers, an unconfirmed peer that was not available is in
\* potential_peers, and either way the peer is in one of the two sets.
C29_Candidate ==
    [][(Calls("add_peer_if_useful") /\ Returned(Ok(Some(TRUE)))) =>
        \A peer_source \in PeerSources :
            add_peer_if_useful_of(RequestedRoot, peer_source) =>
                /\ CandidateAfter(block_request_state, block_request_state', peer_source)
                /\ CandidateAfter(blob_request_state, blob_request_state', peer_source)]_vars

\* The part of C29 about confirmed peers.
C29_ConfirmedPeer ==
    [][(Calls("add_peer_if_useful") /\ Returned(Ok(Some(TRUE)))) =>
        \A peer_source \in {BlockAndBlobs(p) : p \in Peers} :
            add_peer_if_useful_of(RequestedRoot, peer_source) =>
                /\ CandidateAfter(block_request_state, block_request_state', peer_source)
                /\ CandidateAfter(blob_request_state, blob_request_state', peer_source)]_vars

\* both trackers of a lookup while peers are added, found useless and
\* disconnected
NextLookupUseless ==
    \/ request_block
    \/ add_peer_if_useful
    \/ \E which \in Which :
         CheckPeerDisconnected(which) /\ BlockFailures' + BlobFailures' <= MaxDisconnects
    \/ \E which \in Which : RemovePeerIfUseless(which)
SpecLookupUseless == InitLookupPeers /\ [][NextLookupUseless]_vars

Candidates(t) == t.available_peers \cup t.potential_peers

\* C30: remove_peer_if_useless never strands a lookup: a tracker that had a
\* peer in available_peers or potential_peers before the call has one after
\* it, and the call takes at most the given peer out of potential_peers, and
\* only when that leaves the tracker a candidate.
C30_NeverStrands ==
    [][Calls("remove_peer_if_useless") =>
        LET t == CalledOn
            t2 == CalledOnAfter
            removed == t.potential_peers \ t2.potential_peers
        IN /\ Candidates(t) # {} => Candidates(t2) # {}
           /\ t2.potential_peers \subseteq t.potential_peers
           /\ Cardinality(removed) <= 1
           /\ removed # {} => ~(t.available_peers = {} /\ t.potential_peers = removed)
           /\ t2.available_peers = t.available_peers
           /\ t2.used_peers = t.used_peers
           /\ t2.state = t.state
           /\ SameCounters(t, t2)
           /\ Returned(Unit)]_vars

\* a call has left a tracker its only candidate, an unconfirmed peer
C30_Witness ==
    /\ lookup_ret # None
    /\ Unwrap(lookup_ret).op = "remove_peer_if_useless"
    /\ LET t == TrackerOf(Unwrap(lookup_ret).which)
       IN t.available_peers = {} /\ Cardinality(t.potential_peers) = 1

\* a call has left a tracker with confirmed peers no unconfirmed one
C30_WitnessRemoved ==
    /\ lookup_ret # None
    /\ Unwrap(lookup_ret).op = "remove_peer_if_useless"
    /\ LET t == TrackerOf(Unwrap(lookup_ret).which)
       IN t.available_peers # {} /\ t.potential_peers = {} /\ t.used_peers = {}

\* both trackers of a lookup for a block and its blobs, under requests,
\* responses and reported failures, until MaxFailures failures have been
\* registered on the lookup
NextLookupBoth ==
    \/ request_block
    \/ request_blobs
    \/ verify_block /\ BlockFailures' + BlobFailures' <= MaxFailures
    \/ verify_blob /\ BlockFailures' + BlobFailures' <= MaxFailures
    \/ \E which \in Which :
         RegisterFailureDownloading(which) /\ BlockFailures' + BlobFailures' <= MaxFailures
    \/ \E which \in Which :
         RegisterFailureProcessing(which) /\ BlockFailures' + BlobFailures' <= MaxFailures
SpecLookupBoth == InitLookupU8 /\ [][NextLookupBoth]_vars

OnBlockTracker ==
    \/ Calls("request_block")
    \/ Calls("verify_block")
    \/ /\ Calls("register_failure_downloading") \/ Calls("register_failure_processing")
       /\ CallMade.which = "block"

OnBlobTracker == Calls("request_blobs") \/ Calls("verify_blob")

\* C31: the two trackers of a lookup are independent: request_block,
\* verify_block and a failure registered on the block tracker change neither
\* the blob tracker (state, counters, peer sets) nor the outstanding
\* identifiers nor the holding area, and request_blobs and verify_blob do not
\* change the block tracker.
C31_Independent ==
    [][/\ OnBlockTracker =>
            /\ blob_request_state' = blob_request_state
            /\ requested_ids' = requested_ids
            /\ blob_download_queue' = blob_download_queue
       /\ OnBlobTracker => block_request_state' = block_request_state]_vars

\* a response for the block has failed while blobs are being downloaded and
\* one is held
C31_Witness ==
    /\ lookup_ret # None
    /\ Unwrap(lookup_ret).op = "verify_block"
    /\ Unwrap(lookup_ret).ret.tag = "Err"
    /\ block_request_state.failed_downloading > 0
    /\ blob_request_state.state.tag = "Downloading"
    /\ blob_request_state.failed_downloading = 0
    /\ blob_download_queue # EmptyBlobList

\* a response for the blobs has failed while the block is being processed
C31_WitnessBlob ==
    /\ lookup_ret # None
    /\ Unwrap(lookup_ret).op = "verify_blob"
    /\ Unwrap(lookup_ret).ret.tag = "Err"
    /\ blob_request_state.failed_downloading > 0
    /\ block_request_state.state.tag = "Processing"
    /\ block_request_state.failed_downloading = 0

\* C34: in every reachable tracker state available_peers and potential_peers
\* are disjoint: no peer is at once confirmed and unconfirmed.
C34_Disjoint ==
    \A t \in Trackers : t.available_peers \cap t.potential_peers = {}

\* C35: whenever the blob tracker is in AwaitingDownload, in particular at the
\* start of every download attempt, the holding area blob_download_queue is
\* empty.
C35_QueueEmpty ==
    blob_request_state.state.tag = "AwaitingDownload" =>
        blob_download_queue = EmptyBlobList

\* the case C35 names: a download attempt that starts from AwaitingDownload
\* starts with an empty holding area
C35_AttemptStartsEmpty ==
    [][(/\ Calls("request_blobs")
        /\ blob_request_state.state.tag = "AwaitingDownload"
        /\ blob_request_state'.state.tag = "Downloading") =>
            blob_download_queue' = EmptyBlobList]_vars

\* a stream terminator is handed to verify_block or verify_blob
TerminatorGiven ==
    /\ Calls("verify_block") \/ Calls("verify_blob")
    /\ CallMade.arg = None

\* C38: an empty response delivered to verify_block or verify_blob while the
\* tracker is not Downloading returns no error and changes neither the
\* tracker's state nor its failure counters.
C38_LateTerminator ==
    [][(TerminatorGiven /\ CalledOn.state.tag # "Downloading") =>
        /\ Returned(Ok(None))
        /\ CalledOnAfter.state = CalledOn.state
        /\ SameCounters(CalledOn, CalledOnAfter)]_vars

\* C38 for a tracker that is Processing
C38_WhileProcessing ==
    [][(TerminatorGiven /\ CalledOn.state.tag = "Processing") =>
        /\ Returned(Ok(None))
        /\ CalledOnAfter = CalledOn]_vars

\* C40: a call of request_block or request_blobs that gets past its
\* already-available check finds its tracker in AwaitingDownload, so the
\* debug_assert holds and no request is issued over one still in flight.
C40_AwaitingDownload ==
    [][(Calls("request_block") \/ Calls("request_blobs")) /\ ~Returned(Ok(None))
          => CalledOn.state.tag = "AwaitingDownload"]_vars

\* a request made while a download is in flight leaves the recorded peer
\* alone; it does as long as the tracker knows one peer only
C40_PeerKept ==
    [][(Calls("request_block") \/ Calls("request_blobs"))
          /\ CalledOn.state.tag = "Downloading"
          => CalledOnAfter.state = CalledOn.state]_vars

---------------------------------------------------------------------------
(* Specification and properties of gossip blob validation *)

\* NumGossip validations of sidecars run concurrently while fork choice may
\* learn a block
InitGossip == StreamIdle /\ PackIdle /\ LookupIdle /\ GossipIdle
NextGossip ==
    \/ \E v \in GossipTasks : ValidateEarly(v)
    \/ \E v \in GossipTasks : ValidateLate(v)
    \/ \E v \in GossipTasks : ValidateObserve(v)
    \/ ImportBlock
SpecGossip == InitGossip /\ [][NextGossip]_vars

GossipDone(v) == gossip[v].pc = "done"
GossipResult(v) == Unwrap(gossip_ret[v])
WasAdmitted(v) == GossipDone(v) /\ GossipResult(v).tag = "Ok"
SamePair(v, w) == ObservedKey(gossip[v].sidecar) = ObservedKey(gossip[w].sidecar)
FinalizedStartSlot == Chain.finalized_epoch * Chain.slots_per_epoch

\* the call passes the subnet, future-slot and finalized-slot checks
PassesSlotChecks(v) ==
    /\ gossip[v].sidecar.index = gossip[v].subnet
    /\ GossipResult(v).tag # "BeaconChainError"
    /\ gossip[v].sidecar.slot <= Chain.latest_permissible_slot
    /\ gossip[v].sidecar.slot > FinalizedStartSlot

\* at most one call per pair is admitted, an admitted pair is in the observed set
AtMostOneAdmitted ==
    /\ \A v \in GossipTasks, w \in GossipTasks :
         (v # w /\ WasAdmitted(v) /\ WasAdmitted(w)) => ~SamePair(v, w)
    /\ \A v \in GossipTasks :
         WasAdmitted(v) => ObservedKey(gossip[v].sidecar) \in observed_blob_sidecars

\* the observed set only grows
NeverRemoved == [][observed_blob_sidecars \subseteq observed_blob_sidecars']_vars

\* C8 as stated: at most one call per (block_root, index) pair is admitted and
\* every other call for that pair is rejected as RepeatBlob.
C8_AsStated ==
    /\ AtMostOneAdmitted
    /\ \A v \in GossipTasks, w \in GossipTasks :
         (v # w /\ WasAdmitted(v) /\ GossipDone(w) /\ SamePair(v, w)) =>
            GossipResult(w).tag = "RepeatBlob"

\* C8 (amended): at most one call per (block_root, index) pair is ever
\* admitted; every other call for the pair is rejected, as RepeatBlob when it
\* passes the subnet, future-slot and finalized-slot checks and finds the pair
\* observed; the pair, once observed, is never removed from the observed set.
C8_Amended ==
    /\ [](/\ AtMostOneAdmitted
          /\ \A v \in GossipTasks :
               (GossipDone(v) /\ gossip[v].seen /\ PassesSlotChecks(v)) =>
                    GossipResult(v).tag = "RepeatBlob")
    /\ NeverRemoved

\* two calls for one pair both passed the first look at the observed set; one
\* was admitted and the second look rejected the other
C8_Witness ==
    \E v \in GossipTasks, w \in GossipTasks :
        /\ v # w /\ SamePair(v, w)
        /\ WasAdmitted(v)
        /\ GossipDone(w) /\ ~gossip[w].seen
        /\ GossipResult(w).tag = "RepeatBlob"

\* the eight checks on what the call was given and what it read, in the order
\* of the claim, each with its rejection
GossipChecks(v) ==
    LET s == gossip[v].sidecar
        parent_slot == ForkChoiceBlock(s.block_parent_root).slot
    IN << [fails |-> s.index # gossip[v].subnet,
           rejection |-> InvalidSubnet(s.index, gossip[v].subnet)],
          [fails |-> s.slot > Chain.latest_permissible_slot,
           rejection |-> FutureSlot(s.slot, Chain.latest_permissible_slot)],
          [fails |-> s.slot <= FinalizedStartSlot,
           rejection |-> PastFinalizedSlot(s.slot, FinalizedStartSlot)],
          [fails |-> gossip[v].seen,
           rejection |-> RepeatBlob(s.proposer_index, s.slot, s.index)],
          [fails |-> ~gossip[v].parent_known,
           rejection |-> BlobParentUnknown(s)],
          [fails |-> parent_slot >= s.slot,
           rejection |-> BlobIsNotLaterThanParent(s.slot, parent_slot)],
          [fails |-> s.proposer_index # ProposerAt(s.slot),
           rejection |-> ProposerIndexMismatch(s.proposer_index, ProposerAt(s.slot))],
          [fails |-> s.signer # ProposerAt(s.slot),
           rejection |-> ProposerSignatureInvalid] >>

\* the position of the first failing check, 0 when all pass
FirstFailing(checks) ==
    IF \E i \in DOMAIN checks : checks[i].fails
    THEN CHOOSE i \in DOMAIN checks :
            checks[i].fails /\ \A j \in DOMAIN checks : checks[j].fails => i <= j
    ELSE 0

\* C9: the checks run in the order subnet, future slot, finalized slot,
\* duplicate, parent known, parent slot, proposer index, signature and the
\* rejection is that of the first failing one; a sidecar whose index differs
\* from the subnet is rejected with InvalidSubnet{expected = index, received = subnet}.
C9_CheckOrder ==
    \A v \in GossipTasks :
        GossipDone(v) =>
            LET r == GossipResult(v)
                checks == GossipChecks(v)
                k == FirstFailing(checks)
            IN /\ gossip[v].sidecar.index # gossip[v].subnet =>
                    r = InvalidSubnet(gossip[v].sidecar.index, gossip[v].subnet)
               /\ r.tag \notin {"BeaconChainError", "UnknownValidator"} =>
                    IF k = 0 THEN r.tag \in {"Ok", "RepeatBlob"}
                             ELSE r = checks[k].rejection
               /\ r.tag = "BeaconChainError" => k # 1
               /\ r.tag = "UnknownValidator" => k \in {0, 8}

\* one call got InvalidSubnet for a sidecar that fails later checks too, and
\* another got the parent-unknown rejection for a sidecar that also fails the
\* proposer and signature checks
C9_Witness ==
    \E v \in GossipTasks, w \in GossipTasks :
        /\ GossipDone(v) /\ GossipDone(w)
        /\ GossipResult(v).tag = "InvalidSubnet"
        /\ GossipChecks(v)[2].fails
        /\ GossipResult(w).tag = "BlobParentUnknown"
        /\ GossipChecks(w)[7].fails /\ GossipChecks(w)[8].fails

\* C10: a sidecar that passes the subnet and future-slot checks and whose slot
\* is at most the start slot of the finalized checkpoint's epoch is rejected
\* with PastFinalizedSlot, and no sidecar with such a slot is admitted.
C10_PastFinalized ==
    \A v \in GossipTasks :
        GossipDone(v) =>
            /\ (/\ gossip[v].sidecar.index = gossip[v].subnet
                /\ GossipResult(v).tag # "BeaconChainError"
                /\ gossip[v].sidecar.slot <= Chain.latest_permissible_slot
                /\ gossip[v].sidecar.slot <= FinalizedStartSlot) =>
                    GossipResult(v) =
                        PastFinalizedSlot(gossip[v].sidecar.slot, FinalizedStartSlot)
            /\ GossipResult(v).tag = "Ok" => gossip[v].sidecar.slot > FinalizedStartSlot

\* a sidecar at the finalized checkpoint's start slot, sent on its own subnet,
\* was rejected as past finalized
C10_Witness ==
    \E v \in GossipTasks :
        /\ GossipDone(v)
        /\ gossip[v].sidecar.slot = FinalizedStartSlot
        /\ gossip[v].sidecar.index = gossip[v].subnet
        /\ GossipResult(v).tag = "PastFinalizedSlot"

\* the call of task v returns in this step
GossipReturns(v) == gossip_ret[v] = None /\ gossip_ret'[v] # None

\* C37: the observed set gains a sidecar's (block_root, index) only in the
\* step that returns the sidecar admitted: a call that returns a rejection
\* (invalid subnet, future slot, past finalized, repeat, unknown parent, parent
\* not earlier, proposer mismatch, unknown validator, invalid signature,
\* internal error) leaves the set as it was, and so does every step of a call
\* that has not returned.
C37_ObservedOnAdmission ==
    [][/\ \A v \in GossipTasks :
            (GossipReturns(v) /\ Unwrap(gossip_ret'[v]).tag # "Ok") =>
                observed_blob_sidecars' = observed_blob_sidecars
       /\ \A v \in GossipTasks :
            (GossipReturns(v) /\ Unwrap(gossip_ret'[v]).tag = "Ok") =>
                ObservedKey(gossip[v].sidecar) \in observed_blob_sidecars'
       /\ observed_blob_sidecars' # observed_blob_sidecars =>
            \E v \in GossipTasks :
               /\ GossipReturns(v)
               /\ Unwrap(gossip_ret'[v]) = Admitted(gossip[v].sidecar)
               /\ observed_blob_sidecars' =
                    observed_blob_sidecars \cup {ObservedKey(gossip[v].sidecar)}]_vars

\* a sidecar was deferred because its parent was unknown, and admitted by a
\* later call once fork choice knew the parent
C37_Witness ==
    \E v \in GossipTasks, w \in GossipTasks :
        /\ v # w
        /\ GossipDone(v) /\ GossipDone(w)
        /\ gossip[v].sidecar = gossip[w].sidecar
        /\ GossipResult(v) = BlobParentUnknown(gossip[v].sidecar)
        /\ GossipResult(w) = Admitted(gossip[w].sidecar)

=============================================================================
